---- MODULE Spec2Model ----
(***************************************************************************)
(* The live ("finalized") block downloader of the chain analyzer:         *)
(* runDownloadBlocksFinalized with its catch-up loop, its head /          *)
(* finalized-checkpoint / reorg event handlers, ChainAnalyzer.Reorg,       *)
(* ChainAnalyzer.CheckFinalized, the metric rewinds, and the database     *)
(* tables the drops act on.                                               *)
(*                                                                         *)
(* phase0.Slot and phase0.Epoch are uint64.  TLC's integers are narrower,  *)
(* so unsigned subtraction and addition wrap at 2^WordBits instead of     *)
(* 2^64; every slot the model downloads lies far below either modulus.    *)
(***************************************************************************)
EXTENDS Integers, Sequences, FiniteSets, TLC

\* ------------------------------------------------------------ bounds
\* highest slot the beacon node serves
MaxSlot == 100
\* number of slots the chain head advances after the live loop has started
Window == 5
\* how far ahead of the cached head a head or reorg event may point
MaxLag == 3
\* deepest reorg the beacon node reports
MaxDepth == 2
\* number of reorg events in one run
MaxReorgs == 1
\* number of unnoticed block replacements in one run
MaxMissed == 1
\* width of the unsigned words of the model
WordBits == 16
\* longest slot range of a historical run
MaxRange == 34
\* most validator workers of a run
MaxWorkers == 2
\* highest init slot given to NewStateAnalyzer
MaxInitSlot == 100
\* most validators of a beacon state
MaxValidators == 2
\* highest epoch of a beacon state
MaxEpoch == 2
\* Gwei of one effective balance increment, at the scale of the model
EFFECTIVE_BALANCE_INCREMENT == 4

\* ------------------------------------------------------------ program constants
SlotsPerEpoch == 32
epochsToFinalizedTentative == 2

Modulus == 2^WordBits
Slots == 0..MaxSlot
Epochs == 0..(MaxSlot \div SlotsPerEpoch)

\* uint64 arithmetic
USub(a, b) == (a + Modulus - b) % Modulus
UAdd(a, b) == (a + b) % Modulus

VARIABLES
  pc,                \* position of the live downloader: "catchup", "select", "head", "done"
  nextSlotDownload,  \* next slot the downloader will request
  headSlot,          \* bound of the running download loop (current head / head event)
  queue,             \* the download cache: BlockHistory, HeadBlock, LatestFinalized
  stop,              \* s.stop
  chain,             \* beacon node: slot -> version of the canonical block (its state root)
  reorgs,            \* <<reorg events so far, unnoticed block replacements so far>>
  tip,               \* beacon node: highest slot the chain reaches in this run
  blockRows,         \* slots with a row in the block table
  txRows,            \* slots with rows in t_transactions
  wdRows,            \* slots with rows in the withdrawal table
  issued,            \* persistables handed to the DB client by the last event handler
  downloaded,        \* slots requested by the running / last download loop, in order
  ev,                \* the last event handled
  states,            \* slots whose beacon state the running / last download loop requested
  args,              \* the inputs of the run
  life,              \* positions of Run() and Close() and what they share
  out                \* the value a constructor or command computed from args

vars == <<pc, nextSlotDownload, headSlot, queue, stop, chain, reorgs, tip,
          blockRows, txRows, wdRows, issued, downloaded, ev, states, args, life, out>>
\* the variables the downloaders leave alone
others == <<args, life, out>>

\* ------------------------------------------------------------ beacon node
RequestBeaconBlock(slot) == [slot |-> slot, root |-> chain[slot]]
RequestStateRoot(slot) == chain[slot]

\* ------------------------------------------------------------ download cache
NewStateQueue(finalizedBlock) ==
  [BlockHistory    |-> [i \in {finalizedBlock.slot} |-> finalizedBlock],
   HeadBlock       |-> finalizedBlock,
   LatestFinalized |-> finalizedBlock]

AddNewBlock(q, block) ==
  [q EXCEPT !.BlockHistory =
               [i \in (DOMAIN q.BlockHistory) \cup {block.slot} |->
                  IF i = block.slot THEN block ELSE q.BlockHistory[i]],
            !.HeadBlock = block]

\* eviction: entries more than the retention window behind the new finalized epoch leave
AdvanceFinalized(q, slot) ==
  LET keep == {i \in DOMAIN q.BlockHistory :
                 (i \div SlotsPerEpoch) + epochsToFinalizedTentative >= slot \div SlotsPerEpoch}
  IN [q EXCEPT !.BlockHistory = [i \in keep |-> q.BlockHistory[i]],
               !.LatestFinalized = q.BlockHistory[slot]]

MaxOf(S) == CHOOSE x \in S : \A y \in S : y <= x

\* erases every entry with slot >= `slot`; the head becomes the newest entry left
Rewind(q, slot) ==
  LET keep == {i \in DOMAIN q.BlockHistory : i < slot}
  IN [q EXCEPT !.BlockHistory = [i \in keep |-> q.BlockHistory[i]],
               !.HeadBlock = IF q.HeadBlock.slot < slot \/ keep = {}
                             THEN q.HeadBlock
                             ELSE q.BlockHistory[MaxOf(keep)]]

\* ------------------------------------------------------------ persistables
Row(model, arg, root) == [model |-> model, arg |-> arg, root |-> root]

RewindBlockMetrics(slot) ==
  << Row("BlockDrop", slot, 0), Row("TransactionDrop", slot, 0), Row("WithdrawalDrop", slot, 0) >>

\* variant: the validator-rewards drop takes the same epoch as the other two
RewindEpochMetricsSameEpoch(epoch) ==
  << Row("EpochDrop", epoch, 0), Row("ProposerDutiesDrop", epoch, 0),
     Row("ValidatorRewardsDrop", epoch, 0) >>

RewindEpochMetrics(epoch) ==
  << Row("EpochDrop", epoch, 0), Row("ProposerDutiesDrop", epoch, 0),
     Row("ValidatorRewardsDrop", UAdd(epoch, 1), 0) >>

\* the drop queries
DropBlocks(rows, slot) == {s \in rows : s < slot}
DropTransactions(rows, slot) == {s \in rows : s # slot}
DropWithdrawals(rows, slot) == {s \in rows : s < slot}

Drop(model, table, arg) ==
  CASE model = "BlockDrop"       -> DropBlocks(table, arg)
    [] model = "TransactionDrop" -> DropTransactions(table, arg)
    [] model = "WithdrawalDrop"  -> DropWithdrawals(table, arg)
    [] OTHER                     -> table

\* the DB workers execute the drops of `rows` that carry `model`, in arrival order
RECURSIVE Execute(_, _, _)
Execute(table, rows, model) ==
  IF rows = <<>> THEN table
  ELSE Execute(IF Head(rows).model = model THEN Drop(model, table, Head(rows).arg) ELSE table,
               Tail(rows), model)

\* ------------------------------------------------------------ start of the live loop
StartSlot(lastSlot, finalizedSlot) ==
  IF lastSlot = 0 \/ lastSlot > finalizedSlot
  THEN finalizedSlot
  ELSE USub(lastSlot, epochsToFinalizedTentative * SlotsPerEpoch)

\* the early starts explored: the finalized block at the first slot of an
\* epoch, the database empty or filled up to the finalized slot, the head an
\* epoch ahead of the finalized block
InitFinalized == {0, SlotsPerEpoch}
InitLast(f) == {0, f}
InitHead(f) == {f + SlotsPerEpoch - 2, f + SlotsPerEpoch - 1}
Tip(h) == IF h + Window <= MaxSlot THEN h + Window ELSE MaxSlot
\* the rows of a table whose highest slot is lastSlot (none when it is empty)
InitRows(lastSlot) == IF lastSlot = 0 THEN {} ELSE {lastSlot}

\* what the last event handler saw: its event (type, slot), a reorg's base slot and
\* whether it was acted upon, a checkpoint check's outcome, the finalized slot it
\* started from, the slots whose state root it requested and the mismatch slot m,
\* and for a head event the handled reorg <<base, slot>> that came right before it
\* and the next slot to download when it arrived
NoEvent == [type |-> "none", slot |-> 0, base |-> 0, handled |-> FALSE,
            outcome |-> "none", from |-> 0, asked |-> {}, m |-> 0, reorg |-> <<>>,
            next |-> 0]

\* the state when the catch-up loop is entered: finalized block at slot f, last
\* slot of the database last, head at slot h
Start(f, last, h) ==
  /\ chain = [s \in Slots |-> 0]
  /\ reorgs = <<0, 0>>
  /\ tip = Tip(h)
  /\ queue = NewStateQueue([slot |-> f, root |-> 0])
  /\ nextSlotDownload = StartSlot(last, f)
  /\ headSlot = h
  /\ pc = "catchup"
  /\ stop = FALSE
  /\ blockRows = InitRows(last)
  /\ txRows = InitRows(last)
  /\ wdRows = InitRows(last)
  /\ issued = <<>>
  /\ downloaded = <<>>
  /\ ev = NoEvent
  /\ states = <<>>
  /\ args = [kind |-> "live", last |-> last, finalized |-> f, head |-> h]
  /\ life = <<>>
  /\ out = <<>>

\* a start late enough for a rewind of two epochs to stay above slot 0: the
\* database filled up to the finalized slot, the head an epoch ahead of it
InitLate ==
  Start(2 * SlotsPerEpoch, 2 * SlotsPerEpoch, 3 * SlotsPerEpoch - 1)

Init ==
  \/ \E f \in InitFinalized : \E last \in InitLast(f) : \E h \in InitHead(f) :
       Start(f, last, h)
  \/ InitLate

\* ------------------------------------------------------------ DownloadNewBlock
\* requests the block, adds it to the cache and hands it to the block and
\* transaction processors, whose rows reach the tables
DownloadNewBlock(slot) ==
  /\ queue' = AddNewBlock(queue, RequestBeaconBlock(slot))
  /\ blockRows' = blockRows \cup {slot}
  /\ txRows' = txRows \cup {slot}
  /\ wdRows' = wdRows \cup {slot}
  /\ downloaded' = Append(downloaded, slot)

\* the state the download loops request after the block of `slot`
EpochBoundary(slot) == slot % SlotsPerEpoch = 0
StateSlot(slot) == USub(slot, 1)
DownloadNewState(slot) ==
  states' = IF EpochBoundary(slot) THEN Append(states, StateSlot(slot)) ELSE states

\* variant: the loop counter skips a slot
NextAfterSkip(slot) == UAdd(slot, 2)
NextAfter(slot) == UAdd(slot, 1)

\* variant: the catch-up loop includes the head slot
CatchUpContinuesToHead(next, head) == next <= head
\* the catch-up loop goes on while the next slot is below the head
CatchUpContinues(next, head) == next < head
\* variant: the catch-up loop never reads the stop flag
StopNeverSeenInCatchUp == FALSE
\* the stop flag is read at the end of an iteration: no read precedes the first
StopSeenInCatchUp == downloaded # <<>> /\ stop

\* one iteration of the catch-up loop (the read of the stop flag that ends the
\* previous iteration is taken with it)
CatchUpStep ==
  /\ pc = "catchup"
  /\ CatchUpContinues(nextSlotDownload, headSlot)
  /\ IF StopSeenInCatchUp
     THEN /\ pc' = "done"
          /\ UNCHANGED <<nextSlotDownload, queue, blockRows, txRows, wdRows, downloaded, states>>
     ELSE /\ DownloadNewBlock(nextSlotDownload)
          /\ DownloadNewState(nextSlotDownload)
          /\ nextSlotDownload' = NextAfter(nextSlotDownload)
          /\ pc' = "catchup"
  /\ UNCHANGED <<headSlot, stop, chain, reorgs, tip, issued, ev>>
  /\ UNCHANGED others

\* the catch-up loop ends; the event subscriptions start
CatchUpDone ==
  /\ pc = "catchup"
  /\ ~CatchUpContinues(nextSlotDownload, headSlot)
  /\ pc' = IF StopSeenInCatchUp THEN "done" ELSE "select"
  /\ headSlot' = 0
  /\ UNCHANGED <<nextSlotDownload, queue, stop, chain, reorgs, tip,
                 blockRows, txRows, wdRows, issued, downloaded, ev, states>>
  /\ UNCHANGED others

\* ------------------------------------------------------------ head events
HeadInputs ==
  {h \in Slots : queue.HeadBlock.slot <= h /\ h <= queue.HeadBlock.slot + MaxLag /\ h <= tip}

\* variant: the head loop stops before the head event's slot
HeadContinuesBelow(next, head) == next < head
\* the head loop goes on while the next slot is at or below the head event's slot
HeadContinues(next, head) == next <= head

\* a head event arrives: the download loop starts
HeadEvent(h) ==
  /\ pc = "select"
  /\ pc' = "head"
  /\ headSlot' = h
  /\ downloaded' = <<>>
  /\ states' = <<>>
  /\ issued' = <<>>
  /\ ev' = [NoEvent EXCEPT !.type = "head", !.slot = h, !.next = nextSlotDownload,
                           !.reorg = IF ev.type = "reorg" /\ ev.handled
                                     THEN <<ev.base, ev.slot>> ELSE <<>>]
  /\ UNCHANGED <<nextSlotDownload, queue, stop, chain, reorgs, tip, blockRows, txRows, wdRows>>
  /\ UNCHANGED others

\* one iteration of the head loop
HeadStep ==
  /\ pc = "head"
  /\ HeadContinues(nextSlotDownload, headSlot)
  /\ IF stop
     THEN /\ pc' = "done"
          /\ UNCHANGED <<nextSlotDownload, queue, blockRows, txRows, wdRows, downloaded, states>>
     ELSE /\ DownloadNewBlock(nextSlotDownload)
          /\ DownloadNewState(nextSlotDownload)
          /\ nextSlotDownload' = NextAfter(nextSlotDownload)
          /\ pc' = "head"
  /\ UNCHANGED <<headSlot, stop, chain, reorgs, tip, issued, ev>>
  /\ UNCHANGED others

HeadDone ==
  /\ pc = "head"
  /\ ~HeadContinues(nextSlotDownload, headSlot)
  /\ pc' = "select"
  /\ headSlot' = 0
  /\ UNCHANGED <<nextSlotDownload, queue, stop, chain, reorgs, tip,
                 blockRows, txRows, wdRows, issued, downloaded, ev, states>>
  /\ UNCHANGED others

\* ------------------------------------------------------------ reorg events
RECURSIVE OrphanRows(_, _, _)
OrphanRows(q, i, slot) ==
  IF i >= slot THEN <<>>
  ELSE (IF i \in DOMAIN q.BlockHistory
        THEN << Row("Orphan", i, q.BlockHistory[i].root) >>
        ELSE <<>>) \o OrphanRows(q, i + 1, slot)

\* variant: the epoch boundary is taken at the first slot of an epoch, as the
\* state download does, and the base epoch is not compared
CrossesEpochAtFirstSlot(baseSlot, slot) == slot % SlotsPerEpoch = 0

CrossesEpoch(baseSlot, slot) ==
  \/ slot % SlotsPerEpoch = 31
  \/ baseSlot \div SlotsPerEpoch # slot \div SlotsPerEpoch

\* variant: the cache is rewound before the orphans are read from it
ReorgRewindFirst(q, baseSlot, slot) ==
  [rows  |-> RewindBlockMetrics(baseSlot)
             \o (IF CrossesEpoch(baseSlot, slot)
                 THEN RewindEpochMetrics(USub(baseSlot \div SlotsPerEpoch, 1))
                 ELSE <<>>)
             \o OrphanRows(Rewind(q, baseSlot), baseSlot, slot),
   queue |-> Rewind(q, baseSlot)]

\* ChainAnalyzer.Reorg: the rows it persists and the cache it leaves
Reorg(q, baseSlot, slot) ==
  [rows  |-> RewindBlockMetrics(baseSlot)
             \o (IF CrossesEpoch(baseSlot, slot)
                 THEN RewindEpochMetrics(USub(baseSlot \div SlotsPerEpoch, 1))
                 ELSE <<>>)
             \o OrphanRows(q, baseSlot, slot),
   queue |-> Rewind(q, baseSlot)]

\* the reorg events the beacon node may report: <<slot, depth>> near the cached
\* head, the base above the finalized slot of the cache (finalized blocks are
\* not reorganised) and the depth no larger than the slot
ReorgInputs ==
  {rd \in Slots \X (1..MaxDepth) :
     /\ queue.HeadBlock.slot <= rd[1] /\ rd[1] <= queue.HeadBlock.slot + MaxDepth
     /\ rd[1] <= tip
     /\ rd[2] <= rd[1]
     /\ rd[1] - rd[2] > queue.LatestFinalized.slot}

\* the beacon node replaces the canonical blocks of [base, slot)
ChainReorg(baseSlot, slot, seen) ==
  /\ IF seen
     THEN reorgs[1] < MaxReorgs /\ reorgs' = <<reorgs[1] + 1, reorgs[2]>>
     ELSE reorgs[2] < MaxMissed /\ reorgs' = <<reorgs[1], reorgs[2] + 1>>
  /\ chain' = [s \in Slots |-> IF baseSlot <= s /\ s < slot THEN chain[s] + 1 ELSE chain[s]]

ExecuteDrops(rows) ==
  /\ blockRows' = Execute(blockRows, rows, "BlockDrop")
  /\ txRows' = Execute(txRows, rows, "TransactionDrop")
  /\ wdRows' = Execute(wdRows, rows, "WithdrawalDrop")

\* variant: the download resumes one slot too late
ResumeSlotLate(q) == UAdd(q.HeadBlock.slot, 2)
\* the slot the download resumes from after a reorg
ResumeSlot(q) == UAdd(q.HeadBlock.slot, 1)

\* variant: a reorg whose base is the next slot to download is acted upon
AlreadyDownloadedAtBase(next, baseSlot) == next >= baseSlot
\* if we have already downloaded baseSlot
AlreadyDownloaded(next, baseSlot) == next > baseSlot

ReorgEvent(slot, depth) ==
  LET baseSlot == USub(slot, depth)
  IN /\ pc = "select"
     /\ ChainReorg(baseSlot, slot, TRUE)
     /\ IF AlreadyDownloaded(nextSlotDownload, baseSlot)
        THEN \E res \in {Reorg(queue, baseSlot, slot)} :
             /\ queue' = res.queue
             /\ nextSlotDownload' = ResumeSlot(res.queue)
             /\ issued' = << Row("Reorg", slot, depth) >> \o res.rows
             /\ ExecuteDrops(res.rows)
        ELSE /\ issued' = << Row("Reorg", slot, depth) >>
             /\ UNCHANGED <<queue, nextSlotDownload, blockRows, txRows, wdRows>>
     /\ ev' = [NoEvent EXCEPT !.type = "reorg", !.slot = slot, !.base = baseSlot,
                              !.handled = AlreadyDownloaded(nextSlotDownload, baseSlot)]
     /\ downloaded' = <<>>
     /\ states' = <<>>
     /\ UNCHANGED <<pc, headSlot, stop, tip>>
     /\ UNCHANGED others

\* cached, not yet finalized slots whose canonical block may be replaced unnoticed
StaleResidues == {0, 1, 31}
StaleInputs ==
  {s \in DOMAIN queue.BlockHistory :
     s > queue.LatestFinalized.slot /\ (s % SlotsPerEpoch) \in StaleResidues}

\* the canonical block of `slot` is replaced and no event reaches the downloader
MissedReorg(slot) ==
  /\ pc = "select"
  /\ ChainReorg(slot, slot + 1, FALSE)
  /\ ev' = NoEvent
  /\ issued' = <<>>
  /\ downloaded' = <<>>
  /\ states' = <<>>
  /\ UNCHANGED <<pc, nextSlotDownload, headSlot, queue, stop, tip, blockRows, txRows, wdRows>>
  /\ UNCHANGED others

\* ------------------------------------------------------------ finalized checkpoints
CheckpointInputs == {e \in Epochs : e * SlotsPerEpoch <= tip}
\* variant: the comparison starts one slot after the finalized slot
CheckStartAfter(q) == q.LatestFinalized.slot + 1
\* the first slot a checkpoint check compares
CheckStart(q) == q.LatestFinalized.slot

RECURSIVE CheckFrom(_, _, _, _)
CheckFrom(q, i, finalizedBlock, asked) ==
  IF ~(i < finalizedBlock.slot)
  THEN [queue |-> q, slot |-> finalizedBlock.slot, ok |-> TRUE, err |-> FALSE,
        rows |-> <<>>, m |-> 0, asked |-> asked]
  ELSE IF i \in DOMAIN q.BlockHistory
       THEN IF RequestStateRoot(i) = q.BlockHistory[i].root
            THEN CheckFrom(AdvanceFinalized(q, i), i + 1, finalizedBlock, asked \cup {i})
            ELSE [queue |-> NewStateQueue(finalizedBlock),
                  slot  |-> USub(i, epochsToFinalizedTentative * SlotsPerEpoch),
                  ok    |-> FALSE, err |-> FALSE,
                  rows  |-> RewindBlockMetrics(i)
                            \o RewindEpochMetrics(USub(i \div SlotsPerEpoch, 1)),
                  m     |-> i, asked |-> asked \cup {i}]
       ELSE CheckFrom(q, i + 1, finalizedBlock, asked \cup {i})

\* variant: the cache is anchored anew at the checkpoint block after every check
CheckFinalizedReanchor(epoch, q, failed) ==
  IF failed
  THEN [queue |-> q, slot |-> 0, ok |-> FALSE, err |-> TRUE, rows |-> <<>>, m |-> 0,
        asked |-> {}]
  ELSE [CheckFrom(q, CheckStart(q), RequestBeaconBlock(epoch * SlotsPerEpoch), {})
          EXCEPT !.queue = NewStateQueue(RequestBeaconBlock(epoch * SlotsPerEpoch))]

CheckFinalized(epoch, q, failed) ==
  IF failed
  THEN [queue |-> q, slot |-> 0, ok |-> FALSE, err |-> TRUE, rows |-> <<>>, m |-> 0,
        asked |-> {}]
  ELSE CheckFrom(q, CheckStart(q), RequestBeaconBlock(epoch * SlotsPerEpoch), {})

\* variant: an error of the check is only logged
StopOnErrorIgnored(flag, err) == flag
\* if err != nil { s.stop = true }
StopOnError(flag, err) == flag \/ err

FinalizedEvent(epoch, failed) ==
  \E res \in {CheckFinalized(epoch, queue, failed)} :
     /\ pc = "select"
     /\ issued' = << Row("Checkpoint", epoch, 0) >> \o res.rows
     /\ queue' = res.queue
     /\ stop' = StopOnError(stop, res.err)
     /\ nextSlotDownload' = IF ~res.ok THEN res.slot ELSE nextSlotDownload
     /\ ExecuteDrops(res.rows)
     /\ ev' = [NoEvent EXCEPT !.type = "finalized", !.slot = epoch * SlotsPerEpoch,
                              !.outcome = IF res.err THEN "error"
                                          ELSE IF res.ok THEN "ok" ELSE "mismatch",
                              !.from = queue.LatestFinalized.slot,
                              !.asked = res.asked, !.m = res.m]
     /\ downloaded' = <<>>
     /\ states' = <<>>
     /\ UNCHANGED <<pc, headSlot, chain, reorgs, tip>>
     /\ UNCHANGED others

\* ------------------------------------------------------------ ticker
Tick ==
  /\ pc = "select"
  /\ stop
  /\ pc' = "done"
  /\ UNCHANGED <<nextSlotDownload, headSlot, queue, stop, chain, reorgs, tip,
                 blockRows, txRows, wdRows, issued, downloaded, ev, states>>
  /\ UNCHANGED others

Next ==
  \/ CatchUpStep
  \/ CatchUpDone
  \/ \E h \in HeadInputs : HeadEvent(h)
  \/ HeadStep
  \/ HeadDone
  \/ \E rd \in ReorgInputs : ReorgEvent(rd[1], rd[2])
  \/ \E s \in StaleInputs : MissedReorg(s)
  \/ \E e \in CheckpointInputs : \E failed \in BOOLEAN : FinalizedEvent(e, failed)
  \/ Tick

Spec == Init /\ [][Next]_vars

(* ------------------------------------------------------------------ *)
(* The historical downloader, runDownloadBlocks, and the stop flag     *)
(* ------------------------------------------------------------------ *)
\* StateQueue{}
EmptyStateQueue ==
  [BlockHistory |-> <<>>, HeadBlock |-> [slot |-> 0, root |-> 0],
   LatestFinalized |-> [slot |-> 0, root |-> 0]]

\* the first slots explored: around the first two epoch boundaries
HistoricalInits == {0, 1, SlotsPerEpoch - 1, SlotsPerEpoch, SlotsPerEpoch + 1}

InitHistorical ==
  \E initSlot \in HistoricalInits : \E finalSlot \in (initSlot + 1)..(initSlot + MaxRange) :
    /\ pc = "historical"
    /\ nextSlotDownload = initSlot
    /\ headSlot = finalSlot
    /\ queue = EmptyStateQueue
    /\ stop = FALSE
    /\ chain = [s \in Slots |-> 0]
    /\ reorgs = <<0, 0>>
    /\ tip = finalSlot
    /\ blockRows = {} /\ txRows = {} /\ wdRows = {}
    /\ issued = <<>>
    /\ downloaded = <<>>
    /\ ev = NoEvent
    /\ states = <<>>
    /\ args = [kind |-> "historical", initSlot |-> initSlot, finalSlot |-> finalSlot]
    /\ life = <<>>
    /\ out = <<>>

\* variant: the loop includes the final slot
HistoricalContinuesToFinal(slot, finalSlot) == slot <= finalSlot
\* the loop goes on while the slot is below the final slot
HistoricalContinues(slot, finalSlot) == slot < finalSlot

\* one iteration of the loop with the context alive: the stop flag is read, the
\* block downloaded and, at the first slot of an epoch, the state requested
HistoricalStep ==
  /\ pc = "historical"
  /\ HistoricalContinues(nextSlotDownload, headSlot)
  /\ IF stop
     THEN /\ pc' = "done"
          /\ UNCHANGED <<nextSlotDownload, queue, blockRows, txRows, wdRows, downloaded, states>>
     ELSE /\ DownloadNewBlock(nextSlotDownload)
          /\ DownloadNewState(nextSlotDownload)
          /\ nextSlotDownload' = NextAfter(nextSlotDownload)
          /\ pc' = "historical"
  /\ UNCHANGED <<headSlot, stop, chain, reorgs, tip, issued, ev>>
  /\ UNCHANGED others

\* an iteration that finds the context cancelled
HistoricalCancelled ==
  /\ pc = "historical"
  /\ HistoricalContinues(nextSlotDownload, headSlot)
  /\ pc' = "done"
  /\ UNCHANGED <<nextSlotDownload, headSlot, queue, stop, chain, reorgs, tip,
                 blockRows, txRows, wdRows, issued, downloaded, ev, states>>
  /\ UNCHANGED others

\* the loop has run through its range
HistoricalDone ==
  /\ pc = "historical"
  /\ ~HistoricalContinues(nextSlotDownload, headSlot)
  /\ pc' = "finished"
  /\ UNCHANGED <<nextSlotDownload, headSlot, queue, stop, chain, reorgs, tip,
                 blockRows, txRows, wdRows, issued, downloaded, ev, states>>
  /\ UNCHANGED others

\* the stop flag is set from outside while a downloader runs
StopRequest ==
  /\ pc \in {"historical", "catchup", "head", "select"}
  /\ ~stop
  /\ stop' = TRUE
  /\ UNCHANGED <<pc, nextSlotDownload, headSlot, queue, chain, reorgs, tip,
                 blockRows, txRows, wdRows, issued, downloaded, ev, states>>
  /\ UNCHANGED others

\* the live starts explored together with the stop flag: empty database, the
\* finalized block at the first slot of an epoch
InitLiveLoops ==
  \E f \in InitFinalized : Start(f, 0, f + SlotsPerEpoch - 2)

InitLoops == InitHistorical \/ InitLiveLoops

NextLoops ==
  \/ HistoricalStep
  \/ HistoricalCancelled
  \/ HistoricalDone
  \/ StopRequest
  \/ CatchUpStep
  \/ CatchUpDone
  \/ \E h \in HeadInputs : HeadEvent(h)
  \/ HeadStep
  \/ HeadDone
  \/ \E rd \in ReorgInputs : ReorgEvent(rd[1], rd[2])
  \/ \E s \in StaleInputs : MissedReorg(s)
  \/ \E e \in CheckpointInputs : \E failed \in BOOLEAN : FinalizedEvent(e, failed)
  \/ Tick

SpecLoops == InitLoops /\ [][NextLoops]_vars

(* ------------------------------------------------------------------ *)
(* StateAnalyzer.Run and StateAnalyzer.Close                            *)
(* ------------------------------------------------------------------ *)
\* the variables of the download loops
loop == <<pc, nextSlotDownload, headSlot, queue, stop, chain, reorgs, tip,
          blockRows, txRows, wdRows, issued, downloaded, ev, states>>

\* no download loop is part of the run
NoLoop ==
  /\ pc = "idle"
  /\ nextSlotDownload = 0
  /\ headSlot = 0
  /\ queue = EmptyStateQueue
  /\ stop = FALSE
  /\ chain = [s \in Slots |-> 0]
  /\ reorgs = <<0, 0>>
  /\ tip = 0
  /\ blockRows = {} /\ txRows = {} /\ wdRows = {}
  /\ issued = <<>>
  /\ downloaded = <<>>
  /\ ev = NoEvent
  /\ states = <<>>

DownloadModes == {"historical", "finalized", "hybrid"}
\* the download routines Run starts in a mode
Downloaders(mode) ==
  (IF mode \in {"hybrid", "historical"} THEN 1 ELSE 0)
    + (IF mode \in {"hybrid", "finalized"} THEN 1 ELSE 0)

InitShutdown ==
  \E mode \in DownloadModes : \E workerNum \in 0..MaxWorkers :
    /\ NoLoop
    /\ args = [kind |-> "shutdown", downloadMode |-> mode, validatorWorkerNum |-> workerNum]
    /\ life = [run |-> "start", close |-> "idle", finishDownload |-> FALSE,
               downloads |-> 0, process |-> 0, workers |-> 0, db |-> "open",
               downloadFinishedFlag |-> FALSE, processFinishedFlag |-> FALSE,
               cancels |-> 0, log |-> <<>>]
    /\ out = <<>>

\* Run starts the download routines, the processing routine and the workers
RunLaunch ==
  /\ life.run = "start"
  /\ life' = [life EXCEPT !.run = "waitDownload",
                          !.downloads = Downloaders(args.downloadMode),
                          !.process = 1,
                          !.workers = args.validatorWorkerNum]
  /\ UNCHANGED <<loop, args, out>>

\* a download routine returns
DownloadReturns ==
  /\ life.downloads > 0
  /\ life' = [life EXCEPT !.downloads = @ - 1]
  /\ UNCHANGED <<loop, args, out>>

\* the processing routine returns once the downloads are flagged finished
ProcessReturns ==
  /\ life.process > 0
  /\ life.downloadFinishedFlag
  /\ life' = [life EXCEPT !.process = @ - 1]
  /\ UNCHANGED <<loop, args, out>>

\* a validator worker returns once the processing is flagged finished
WorkerReturns ==
  /\ life.workers > 0
  /\ life.processFinishedFlag
  /\ life' = [life EXCEPT !.workers = @ - 1]
  /\ UNCHANGED <<loop, args, out>>

\* the database client has written its queue and signals FinishSignalChan
DbDrained ==
  /\ life.db = "draining"
  /\ life' = [life EXCEPT !.db = "done"]
  /\ UNCHANGED <<loop, args, out>>

\* variant: the wait for the download routines returns at once
WaitReturnsAtOnce(counter) == TRUE
\* WaitGroup.Wait returns when the counter is zero
WaitReturns(counter) == counter = 0

\* wgDownload.Wait(); downloadFinishedFlag = true
RunDownloadsFinished ==
  /\ life.run = "waitDownload"
  /\ WaitReturns(life.downloads)
  /\ life' = [life EXCEPT !.run = "waitProcess", !.downloadFinishedFlag = TRUE,
                          !.log = Append(@, "downloads")]
  /\ UNCHANGED <<loop, args, out>>

\* wgProcess.Wait(); processFinishedFlag = true
RunProcessFinished ==
  /\ life.run = "waitProcess"
  /\ WaitReturns(life.process)
  /\ life' = [life EXCEPT !.run = "waitWorkers", !.processFinishedFlag = TRUE,
                          !.log = Append(@, "processing")]
  /\ UNCHANGED <<loop, args, out>>

\* wgWorkers.Wait(); s.dbClient.DoneTasks()
RunWorkersFinished ==
  /\ life.run = "waitWorkers"
  /\ WaitReturns(life.workers)
  /\ life' = [life EXCEPT !.run = "waitDB", !.db = "draining",
                          !.log = Append(@, "workers")]
  /\ UNCHANGED <<loop, args, out>>

\* <-s.dbClient.FinishSignalChan; s.dbClient.Close(); close(s.ValTaskChan)
RunDbFinished ==
  /\ life.run = "waitDB"
  /\ life.db = "done"
  /\ life' = [life EXCEPT !.run = "check", !.db = "closed", !.log = Append(@, "db")]
  /\ UNCHANGED <<loop, args, out>>

\* the values the unsynchronised read of finishDownload can give: the value
\* written last or, once Close has written, still the value before it
FinishDownloadRead == {life.finishDownload, FALSE}

\* if s.finishDownload { s.routineClosed <- struct{}{} }
RunCheck ==
  /\ life.run = "check"
  /\ \E seen \in FinishDownloadRead :
       life' = [life EXCEPT !.run = IF seen THEN "send" ELSE "return"]
  /\ UNCHANGED <<loop, args, out>>

\* the send on the unbuffered routineClosed meets the receive in Close
Handshake ==
  /\ life.run = "send"
  /\ life.close = "waiting"
  /\ life' = [life EXCEPT !.run = "return", !.close = "received"]
  /\ UNCHANGED <<loop, args, out>>

\* Run returns: the deferred s.cancel()
RunReturns ==
  /\ life.run = "return"
  /\ life' = [life EXCEPT !.run = "returned", !.cancels = @ + 1,
                          !.log = Append(@, "cancel")]
  /\ UNCHANGED <<loop, args, out>>

\* Close is called: s.finishDownload = true, then the receive blocks
CloseCalled ==
  /\ life.close = "idle"
  /\ life' = [life EXCEPT !.close = "waiting", !.finishDownload = TRUE]
  /\ UNCHANGED <<loop, args, out>>

\* Close has received the signal: s.cancel()
CloseReturns ==
  /\ life.close = "received"
  /\ life' = [life EXCEPT !.close = "returned", !.cancels = @ + 1,
                          !.log = Append(@, "cancel")]
  /\ UNCHANGED <<loop, args, out>>

NextShutdown ==
  \/ RunLaunch
  \/ DownloadReturns
  \/ ProcessReturns
  \/ WorkerReturns
  \/ DbDrained
  \/ RunDownloadsFinished
  \/ RunProcessFinished
  \/ RunWorkersFinished
  \/ RunDbFinished
  \/ RunCheck
  \/ Handshake
  \/ RunReturns
  \/ CloseCalled
  \/ CloseReturns

SpecShutdown == InitShutdown /\ [][NextShutdown]_vars

(* ------------------------------------------------------------------ *)
(* NewStateAnalyzer: the slots whose states are analyzed               *)
(* ------------------------------------------------------------------ *)
\* the init slots explored and how far above them the final slot lies
RangeInits == 0..MaxInitSlot
RangeSpans == {0, 1, SlotsPerEpoch, 2 * SlotsPerEpoch + 1}

InitRanges ==
  \E mode \in DownloadModes : \E initSlot \in RangeInits : \E span \in RangeSpans :
    /\ NoLoop
    /\ args = [kind |-> "ranges", downloadMode |-> mode,
               initSlot |-> initSlot, finalSlot |-> initSlot + span]
    /\ life = <<>>
    /\ out = <<>>

\* start two epochs before
FirstRangeSlot(initSlot) == USub(initSlot, SlotsPerEpoch * 2)

\* for i := ...; i <= finalSlot + 64; i += 32 { append(slotRanges, i) }
RECURSIVE RangeLoop(_, _)
RangeLoop(i, finalSlot) ==
  IF i <= UAdd(finalSlot, SlotsPerEpoch * 2)
  THEN <<i>> \o RangeLoop(UAdd(i, SlotsPerEpoch), finalSlot)
  ELSE <<>>

\* the last slot of the epoch of a slot
LastSlotOfEpochOf(slot) == UAdd(((slot \div SlotsPerEpoch) + 1) * SlotsPerEpoch, Modulus - 1)

\* the slot list and the error NewStateAnalyzer ends with
SlotRanges(mode, initSlot, finalSlot) ==
  IF mode \in {"hybrid", "historical"}
  THEN IF finalSlot <= initSlot
       THEN [err |-> TRUE, slotRanges |-> <<>>]
       ELSE [err |-> FALSE,
             slotRanges |-> RangeLoop(FirstRangeSlot(LastSlotOfEpochOf(initSlot)),
                                      LastSlotOfEpochOf(finalSlot))]
  ELSE [err |-> FALSE, slotRanges |-> <<>>]

NewStateAnalyzer ==
  /\ args.kind = "ranges"
  /\ out = <<>>
  /\ out' = SlotRanges(args.downloadMode, args.initSlot, args.finalSlot)
  /\ UNCHANGED <<loop, args, life>>

NextRanges == NewStateAnalyzer

SpecRanges == InitRanges /\ [][NextRanges]_vars

(* ------------------------------------------------------------------ *)
(* LaunchRewardsCalculator: the flags of the rewards command           *)
(* ------------------------------------------------------------------ *)
RequiredFlags == {"bn-endpoint", "outfolder", "init-slot", "final-slot", "validator-indexes", "db-url"}
WorkerFlags == {"workers-num", "db-workers-num"}

\* the command lines explored: a flag is given or not; a worker flag that is
\* given has a value up to MaxWorkers
FlagSets ==
  UNION { [given -> 0..MaxWorkers] : given \in SUBSET (RequiredFlags \cup WorkerFlags) }
CommandLines ==
  {f \in FlagSets : \A n \in DOMAIN f : n \in RequiredFlags => f[n] = 1}

InitCommand ==
  \E flags \in CommandLines :
    /\ NoLoop
    /\ args = [kind |-> "command", flags |-> flags]
    /\ life = <<>>
    /\ out = <<>>

\* c.IsSet(name)
IsSet(flags, name) == name \in DOMAIN flags
\* c.Int(name): the value given, and 0 for a flag that is not given (the flags
\* declare no default value)
FlagInt(flags, name) == IF IsSet(flags, name) THEN flags[name] ELSE 0

LaunchRewardsCalculator(setupFails) ==
  /\ args.kind = "command"
  /\ out = <<>>
  /\ out' =
       IF \E n \in RequiredFlags : ~IsSet(args.flags, n)
       THEN [err |-> "flag", created |-> FALSE]
       ELSE IF setupFails
       THEN [err |-> "setup", created |-> FALSE]
       ELSE [err |-> "", created |-> TRUE,
             coworkers |-> FlagInt(args.flags, "workers-num"),
             dbWorkers |-> FlagInt(args.flags, "db-workers-num"),
             run |-> FlagInt(args.flags, "workers-num")]
  /\ UNCHANGED <<loop, args, life>>

NextCommand == \E setupFails \in BOOLEAN : LaunchRewardsCalculator(setupFails)

SpecCommand == InitCommand /\ [][NextCommand]_vars

(* ------------------------------------------------------------------ *)
(* AgnosticState: GetCustomState, Setup, ProcessAltairAttestations,    *)
(* MissingFlags.  Go slices are indexed from 0, sequences from 1: the  *)
(* validator with index i is Validators[i + 1], flag f is entry f + 1. *)
(* ------------------------------------------------------------------ *)
FarFutureEpoch == Modulus - 1

\* the validators explored: active from genesis, activated at epoch 1, exited
\* at epoch 1, never activated; balances in units of one increment
ValidatorKinds ==
  { [EffectiveBalance |-> 32, Balance |-> 33, ActivationEpoch |-> 0, ExitEpoch |-> FarFutureEpoch],
    [EffectiveBalance |-> 31, Balance |-> 30, ActivationEpoch |-> 1, ExitEpoch |-> FarFutureEpoch],
    [EffectiveBalance |-> 16, Balance |-> 17, ActivationEpoch |-> 0, ExitEpoch |-> 1],
    [EffectiveBalance |-> 8, Balance |-> 9, ActivationEpoch |-> FarFutureEpoch, ExitEpoch |-> FarFutureEpoch] }
ValidatorLists == UNION { [1..n -> ValidatorKinds] : n \in 0..MaxValidators }
\* a participation byte: three flag bits
ParticipationBytes == 0..(2^3 - 1)
DataVersions == {"phase0", "altair", "bellatrix", "capella", "deneb", "unknown"}
DutiesInputs == {"duties of the epoch", "duties of another epoch"}

InitState ==
  \E version \in DataVersions : \E epoch \in 0..MaxEpoch : \E validators \in ValidatorLists :
  \E participation \in [DOMAIN validators -> ParticipationBytes] : \E duties \in DutiesInputs :
    /\ NoLoop
    /\ args = [kind |-> "state",
               bstate |-> [Version |-> version,
                           Slot |-> epoch * SlotsPerEpoch + SlotsPerEpoch - 1,
                           Validators |-> validators,
                           Balances |-> [i \in DOMAIN validators |-> validators[i].Balance],
                           PreviousEpochParticipation |-> participation],
               epochDuties |-> duties]
    /\ life = <<>>
    /\ out = <<>>

\* AgnosticState{}
EmptyAgnosticState ==
  [Version |-> "", Balances |-> <<>>, Validators |-> <<>>,
   TotalActiveBalance |-> 0, TotalActiveRealBalance |-> 0,
   AttestingBalance |-> <<>>, MaxAttestingBalance |-> 0, EpochStructs |-> "",
   CorrectFlags |-> <<>>, AttestingVals |-> <<>>,
   NumAttestingVals |-> 0, NumActiveVals |-> 0, Epoch |-> 0, Slot |-> 0]

\* a validator is active from its activation epoch until its exit epoch
IsActive(val, epoch) == val.ActivationEpoch <= epoch /\ epoch < val.ExitEpoch

\* the effective balances of the validators marked in valList, summed
RECURSIVE ValsEffectiveBalanceFrom(_, _, _)
ValsEffectiveBalanceFrom(p, valList, i) ==
  IF i > Len(valList) THEN 0
  ELSE (IF valList[i] > 0 /\ i <= Len(p.Validators)
        THEN p.Validators[i].EffectiveBalance ELSE 0)
       + ValsEffectiveBalanceFrom(p, valList, i + 1)
ValsEffectiveBalance(p, valList) == ValsEffectiveBalanceFrom(p, valList, 1)

\* variant: the number of active validators is not reset
NumActiveValsKept(p) == p.NumActiveVals
\* p.NumActiveVals = 0
NumActiveValsReset(p) == 0

\* GetTotalActiveEffBalance: the state with NumActiveVals refreshed, and the
\* total returned
GetTotalActiveEffBalance(p) ==
  LET val_array == [i \in DOMAIN p.Validators |->
                      IF IsActive(p.Validators[i], p.Epoch) THEN 1 ELSE 0]
      count == Cardinality({i \in DOMAIN p.Validators : val_array[i] = 1})
  IN [p |-> [p EXCEPT !.NumActiveVals = NumActiveValsReset(p) + count],
      total |-> ValsEffectiveBalance(p, val_array)]

RECURSIVE RealBalanceFrom(_, _)
RealBalanceFrom(p, i) ==
  IF i > Len(p.Validators) THEN 0
  ELSE (IF IsActive(p.Validators[i], p.Epoch) THEN p.Balances[i] ELSE 0)
       + RealBalanceFrom(p, i + 1)
GetTotalActiveRealBalance(p) == RealBalanceFrom(p, 1)

\* Setup: the arrays are allocated and the totals computed
Setup(p) ==
  LET q == [p EXCEPT !.AttestingBalance = <<0, 0, 0>>,
                     !.AttestingVals = [i \in DOMAIN p.Validators |-> FALSE],
                     !.CorrectFlags = [f \in 1..3 |-> [i \in DOMAIN p.Validators |-> 0]]]
      eff == GetTotalActiveEffBalance(q)
  IN [eff.p EXCEPT !.TotalActiveBalance = eff.total,
                   !.TotalActiveRealBalance = GetTotalActiveRealBalance(eff.p)]

\* the raw fields every constructor copies
RawState(bstate) ==
  [EmptyAgnosticState EXCEPT !.Version = bstate.Version,
                             !.Balances = bstate.Balances,
                             !.Validators = bstate.Validators,
                             !.Epoch = bstate.Slot \div SlotsPerEpoch,
                             !.Slot = bstate.Slot]

\* altair.ParticipationFlags(math.Pow(2, participatingFlag))
FlagOf(participatingFlag) == 2^participatingFlag
\* (item & flag) == flag for a flag of one bit
HasFlag(item, flag) == (item \div flag) % 2 = 1

\* variant: a validator is counted as attesting at each of its flags
NeverCounted(customState, i) == FALSE
\* the validator was counted as attesting before
AlreadyCounted(customState, i) == customState.AttestingVals[i]

\* the body of the inner loop for a validator that has the flag
MarkFlag(customState, participatingFlag, i) ==
  [customState EXCEPT
     !.CorrectFlags[participatingFlag + 1][i] = @ + 1,
     !.AttestingBalance[participatingFlag + 1] = @ + customState.Validators[i].EffectiveBalance,
     !.NumAttestingVals = IF AlreadyCounted(customState, i) THEN @ ELSE @ + 1,
     !.MaxAttestingBalance = IF AlreadyCounted(customState, i) THEN @
                             ELSE customState.Validators[i].EffectiveBalance,
     !.AttestingVals[i] = TRUE]

\* the two nested loops, flag by flag and validator by validator
RECURSIVE ProcessFlagsFrom(_, _, _, _)
ProcessFlagsFrom(customState, participation, participatingFlag, i) ==
  IF participatingFlag > 2 THEN customState
  ELSE IF i > Len(participation)
       THEN ProcessFlagsFrom(customState, participation, participatingFlag + 1, 1)
       ELSE ProcessFlagsFrom(IF HasFlag(participation[i], FlagOf(participatingFlag))
                             THEN MarkFlag(customState, participatingFlag, i)
                             ELSE customState,
                             participation, participatingFlag, i + 1)
ProcessAltairAttestations(customState, participation) ==
  ProcessFlagsFrom(customState, participation, 0, 1)

NewPhase0State(bstate) == Setup(RawState(bstate))
NewAltairState(bstate) ==
  ProcessAltairAttestations(Setup(RawState(bstate)), bstate.PreviousEpochParticipation)

\* the fork versions the switch of GetCustomState has a case for
PostAltairCases == {"altair", "bellatrix", "capella"}

\* GetCustomState: the state and the error returned
CustomState(bstate, epochDuties) ==
  IF bstate.Version = "phase0"
  THEN [state |-> [NewPhase0State(bstate) EXCEPT !.EpochStructs = epochDuties], err |-> FALSE]
  ELSE IF bstate.Version \in PostAltairCases
  THEN [state |-> [NewAltairState(bstate) EXCEPT !.EpochStructs = epochDuties], err |-> FALSE]
  ELSE [state |-> EmptyAgnosticState, err |-> TRUE]

GetCustomState ==
  /\ args.kind = "state"
  /\ out = <<>>
  /\ \E res \in {CustomState(args.bstate, args.epochDuties)} :
       out' = [state |-> res.state, err |-> res.err, returned |-> <<>>]
  /\ UNCHANGED <<loop, args, life>>

\* the total of the active effective balances is computed once more
Recompute ==
  /\ args.kind = "state"
  /\ out # <<>>
  /\ ~out.err
  /\ \E res \in {GetTotalActiveEffBalance(out.state)} :
       out' = [out EXCEPT !.state = res.p, !.returned = <<res.total>>]
  /\ UNCHANGED <<loop, args, life>>

\* variant: the flags are compared in the epoch of the state
SameEpoch(p) == p.Epoch
\* phase0.Epoch(p.Epoch - 1)
PreviousEpoch(p) == USub(p.Epoch, 1)

\* MissingFlags: valIdx is the index counted from 0
MissingFlags(p, valIdx) ==
  IF valIdx >= Len(p.CorrectFlags[1])
  THEN <<FALSE, FALSE, FALSE>>
  ELSE [f \in 1..3 |-> /\ IsActive(p.Validators[valIdx + 1], PreviousEpoch(p))
                        /\ p.CorrectFlags[f][valIdx + 1] = 0]

\* GetMissingFlagCount: flagIndex is 0 for source, 1 for target, 2 for head
GetMissingFlagCount(p, flagIndex) ==
  Cardinality({i \in DOMAIN p.CorrectFlags[flagIndex + 1] :
                 /\ IsActive(p.Validators[i], PreviousEpoch(p))
                 /\ p.CorrectFlags[flagIndex + 1][i] = 0})

NextState == GetCustomState \/ Recompute

SpecState == InitState /\ [][NextState]_vars

(* ------------------------------------------------------------------ *)
(* AltairSpec: the maximum and the realized reward of a validator.     *)
(* float64 values are kept as exact fractions <<numerator,            *)
(* denominator>>; the conversion uint64(x) is the whole part.          *)
(* ------------------------------------------------------------------ *)
TIMELY_SOURCE_WEIGHT == 14
TIMELY_TARGET_WEIGHT == 26
TIMELY_HEAD_WEIGHT == 14
PARTICIPATING_FLAGS_WEIGHT == <<TIMELY_SOURCE_WEIGHT, TIMELY_TARGET_WEIGHT, TIMELY_HEAD_WEIGHT>>
SYNC_REWARD_WEIGHT == 2
WEIGHT_DENOMINATOR == 64
SYNC_COMMITTEE_SIZE == 512
MAX_EFFECTIVE_INCREMENTS == 32

RECURSIVE GCD(_, _)
GCD(a, b) == IF b = 0 THEN a ELSE GCD(b, a % b)
\* the fraction n/d in lowest terms, d > 0
Frac(n, d) == LET g == GCD(n, d) IN IF g = 0 THEN <<0, 1>> ELSE <<n \div g, d \div g>>
FracInt(k) == <<k, 1>>
FracAdd(x, y) == LET g == GCD(x[2], y[2])
                 IN Frac(x[1] * (y[2] \div g) + y[1] * (x[2] \div g), (x[2] \div g) * y[2])
FracMul(x, y) == LET a == Frac(x[1], y[2]) b == Frac(y[1], x[2])
                 IN Frac(a[1] * b[1], a[2] * b[2])
FracDiv(x, y) == FracMul(x, <<y[2], y[1]>>)
\* uint64(x)
Whole(x) == x[1] \div x[2]

\* the validators explored: one or two increments of effective balance,
\* active from genesis or never activated; the public key is the position
RewardValidatorKinds ==
  [EffectiveBalance : {EFFECTIVE_BALANCE_INCREMENT, 2 * EFFECTIVE_BALANCE_INCREMENT},
   ActivationEpoch : {0, FarFutureEpoch},
   ExitEpoch : {FarFutureEpoch}]
RewardValidatorLists ==
  {l \in UNION { [1..n -> RewardValidatorKinds] : n \in 1..MaxValidators } :
     \E i \in DOMAIN l : l[i].ActivationEpoch = 0}
\* the participation bytes explored: no flag, source and target, all three
RewardParticipations == {0, 3, 7}
\* the balance of a validator lies one unit below or above its effective balance
BalanceOffsets == {-1, 1}
\* values of GetBaseRewardPerInc: with and without a fractional part
BaseRewardsPerInc == {<<4, 1>>, <<8193, 2>>}

InitRewards ==
  \E validators \in RewardValidatorLists :
  \E participation \in [DOMAIN validators -> RewardParticipations] :
  \E gain \in [DOMAIN validators -> BalanceOffsets] :
  \E committee \in SUBSET (DOMAIN validators) :
  \E epoch \in 0..1 : \E perInc \in BaseRewardsPerInc :
    /\ NoLoop
    /\ args = [kind |-> "rewards",
               BState |-> [Slot |-> epoch * SlotsPerEpoch + SlotsPerEpoch - 1,
                           Validators |-> validators,
                           Balances |-> [i \in DOMAIN validators |->
                                           validators[i].EffectiveBalance + gain[i]],
                           PreviousEpochParticipation |-> participation],
               PrevBState |-> [Validators |-> validators,
                               Balances |-> [i \in DOMAIN validators |->
                                               validators[i].EffectiveBalance - gain[i]],
                               CurrentSyncCommittee |-> committee],
               BaseRewardPerInc |-> perInc]
    /\ life = <<>>
    /\ out = <<>>

\* CalculatePreviousAttestingVals: one array of marks per flag
CalculatePreviousAttestingVals(bstate) ==
  [f \in 1..3 |-> [i \in DOMAIN bstate.PreviousEpochParticipation |->
     IF HasFlag(bstate.PreviousEpochParticipation[i], FlagOf(f - 1)) THEN 1 ELSE 0]]

RECURSIVE AltairValsEffectiveBalanceFrom(_, _, _)
AltairValsEffectiveBalanceFrom(bstate, valList, i) ==
  IF i > Len(valList) THEN 0
  ELSE (IF valList[i] > 0 THEN bstate.Validators[i].EffectiveBalance ELSE 0)
       + AltairValsEffectiveBalanceFrom(bstate, valList, i + 1)
AltairValsEffectiveBalance(bstate, valList) == AltairValsEffectiveBalanceFrom(bstate, valList, 1)

\* NewAltairSpec: the wrapped states and the attesting balance per flag
NewAltairSpec(a) ==
  [BState |-> a.BState, PrevBState |-> a.PrevBState, BaseRewardPerInc |-> a.BaseRewardPerInc,
   AttestingBalance |->
     [f \in 1..3 |-> AltairValsEffectiveBalance(a.BState, CalculatePreviousAttestingVals(a.BState)[f])]]

CurrentEpoch(p) == p.BState.Slot \div 32

TotalActiveBalance(p) ==
  IF p.BState.Slot < 32
  THEN Len(p.BState.Validators) * EFFECTIVE_BALANCE_INCREMENT * MAX_EFFECTIVE_INCREMENTS
  ELSE AltairValsEffectiveBalance(p.BState,
         [i \in DOMAIN p.BState.Validators |->
            IF IsActive(p.BState.Validators[i], CurrentEpoch(p)) THEN 1 ELSE 0])

\* the value GetBaseRewardPerInc returns for the total of the state
GetBaseRewardPerInc(p, totalEffectiveBalance) == p.BaseRewardPerInc

\* the public key of validator valIdx is in the sync committee
InCommittee(p, valIdx) == (valIdx + 1) \in p.PrevBState.CurrentSyncCommittee

GetMaxSyncComReward(p, valIdx, valEffectiveBalance, totalEffectiveBalance) ==
  IF ~InCommittee(p, valIdx) THEN FracInt(0)
  ELSE LET totalActiveInc == totalEffectiveBalance \div EFFECTIVE_BALANCE_INCREMENT
           totalBaseRewards == FracMul(GetBaseRewardPerInc(p, totalEffectiveBalance),
                                       FracInt(totalActiveInc))
           maxParticipantRewards ==
             FracDiv(FracDiv(FracMul(totalBaseRewards, FracInt(SYNC_REWARD_WEIGHT)),
                             FracInt(WEIGHT_DENOMINATOR)),
                     FracInt(SlotsPerEpoch))
           participantReward == FracDiv(maxParticipantRewards, FracInt(SYNC_COMMITTEE_SIZE))
       IN FracMul(participantReward, FracInt(SlotsPerEpoch))

\* variant: every flag weighs as much as the source flag
FlagWeightSource(i) == TIMELY_SOURCE_WEIGHT
\* PARTICIPATING_FLAGS_WEIGHT[i], i from 0
FlagWeight(i) == PARTICIPATING_FLAGS_WEIGHT[i + 1]

\* one pass of the loop of GetMaxAttestationReward, i from 0
FlagReward(p, i, valEffectiveBalance, totalEffectiveBalance) ==
  LET attestingBalanceInc == p.AttestingBalance[i + 1] \div EFFECTIVE_BALANCE_INCREMENT
      valIncrements == valEffectiveBalance \div EFFECTIVE_BALANCE_INCREMENT
      baseReward == valIncrements * Whole(GetBaseRewardPerInc(p, totalEffectiveBalance))
  IN FracDiv(FracInt(FlagWeight(i) * baseReward * attestingBalanceInc),
             FracInt((totalEffectiveBalance \div EFFECTIVE_BALANCE_INCREMENT) * WEIGHT_DENOMINATOR))

GetMaxAttestationReward(p, valIdx, valEffectiveBalance, totalEffectiveBalance) ==
  FracAdd(FracAdd(FlagReward(p, 0, valEffectiveBalance, totalEffectiveBalance),
                  FlagReward(p, 1, valEffectiveBalance, totalEffectiveBalance)),
          FlagReward(p, 2, valEffectiveBalance, totalEffectiveBalance))

\* variant: the sync committee reward is left out
MaxRewardSumAttestationOnly(flagIndexMaxReward, syncComMaxReward) == flagIndexMaxReward
\* maxReward := flagIndexMaxReward + syncComMaxReward
MaxRewardSum(flagIndexMaxReward, syncComMaxReward) == FracAdd(flagIndexMaxReward, syncComMaxReward)

\* GetMaxReward: the value returned with the two parts it is made of
MaxReward(p, valIdx) ==
  LET vallEffectiveBalance == p.PrevBState.Validators[valIdx + 1].EffectiveBalance
      totalEffectiveBalance == TotalActiveBalance(p)
      flagIndexMaxReward == GetMaxAttestationReward(p, valIdx, vallEffectiveBalance, totalEffectiveBalance)
      syncComMaxReward == GetMaxSyncComReward(p, valIdx, vallEffectiveBalance, totalEffectiveBalance)
  IN [fn |-> "GetMaxReward", valIdx |-> valIdx,
      flagIndexMaxReward |-> flagIndexMaxReward, syncComMaxReward |-> syncComMaxReward,
      result |-> Whole(MaxRewardSum(flagIndexMaxReward, syncComMaxReward))]

\* PrevEpochReward: a difference of two uint64
EpochReward(p, valIdx) ==
  [fn |-> "PrevEpochReward", valIdx |-> valIdx,
   result |-> USub(p.BState.Balances[valIdx + 1], p.PrevBState.Balances[valIdx + 1])]

GetMaxReward(valIdx) ==
  /\ args.kind = "rewards"
  /\ out = <<>>
  /\ out' = MaxReward(NewAltairSpec(args), valIdx)
  /\ UNCHANGED <<loop, args, life>>

PrevEpochReward(valIdx) ==
  /\ args.kind = "rewards"
  /\ out = <<>>
  /\ out' = EpochReward(NewAltairSpec(args), valIdx)
  /\ UNCHANGED <<loop, args, life>>

\* the validator indexes of the state, from 0
RewardInputs == IF args.kind = "rewards" THEN 0..(Len(args.BState.Validators) - 1) ELSE {}

NextRewards ==
  \/ \E valIdx \in RewardInputs : GetMaxReward(valIdx)
  \/ \E valIdx \in RewardInputs : PrevEpochReward(valIdx)

SpecRewards == InitRewards /\ [][NextRewards]_vars

(* ------------------------------------------------------------------ *)
(* BlockAnalyzer.CreateMissingBlock: the block that stands for a       *)
(* missed slot.                                                        *)
(* ------------------------------------------------------------------ *)
\* the largest validator index a proposer duty carries
MaxProposer == 5

\* the missed slots explored
MissedSlots == 0..((MaxEpoch + 1) * SlotsPerEpoch - 1)

\* the proposer of a slot under a duty table <<k, c>>
DutyProposer(table, slot) == (slot * table[1] + table[2]) % (MaxProposer + 1)
DutyTables == {<<0, 0>>, <<1, 0>>, <<1, 1>>, <<3, 2>>}

\* the slots of an epoch the answer of the beacon node may leave out
DutyGaps == {"none", "first", "odd", "all"}
DutyCovers(gap, slot) ==
  CASE gap = "none" -> TRUE
    [] gap = "first" -> slot % SlotsPerEpoch # 0
    [] gap = "odd" -> slot % 2 = 0
    [] OTHER -> FALSE

\* Api.ProposerDuties(epoch, {}): one duty per covered slot of the epoch, in slot order
RECURSIVE DutiesFrom(_, _, _, _)
DutiesFrom(table, gap, slot, left) ==
  IF left = 0 THEN <<>>
  ELSE (IF DutyCovers(gap, slot)
        THEN <<[Slot |-> slot, ValidatorIndex |-> DutyProposer(table, slot)]>>
        ELSE <<>>) \o DutiesFrom(table, gap, slot + 1, left - 1)
ProposerDuties(table, gap, epoch) == DutiesFrom(table, gap, epoch * SlotsPerEpoch, SlotsPerEpoch)

InitMissing ==
  \E slot \in MissedSlots : \E table \in DutyTables : \E gap \in DutyGaps : \E err \in BOOLEAN :
    /\ NoLoop
    /\ args = [kind |-> "missing", slot |-> slot, table |-> table, gap |-> gap, err |-> err]
    /\ life = <<>>
    /\ out = <<>>

\* the zero value of a block: every field the literal does not name
ZeroBlock ==
  [Slot |-> 0, ProposerIndex |-> 0, Graffiti |-> 0, Proposed |-> FALSE,
   Attestations |-> <<>>, Deposits |-> <<>>, BLSToExecutionChanges |-> <<>>,
   ExecutionPayload |-> [BlockNumber |-> 0, GasLimit |-> 0, GasUsed |-> 0, Timestamp |-> 0,
                         Transactions |-> <<>>, Withdrawals |-> <<>>]]

DutyOfAnySlot(duty, slot) == TRUE
\* if duty.Slot == phase0.Slot(slot)
DutyOfSlot(duty, slot) == duty.Slot = slot

\* for _, duty := range duties { if ... { proposerValIdx = int(duty.ValidatorIndex) } }
RECURSIVE ProposerValIdxFrom(_, _, _, _)
ProposerValIdxFrom(duties, slot, i, proposerValIdx) ==
  IF i > Len(duties) THEN proposerValIdx
  ELSE ProposerValIdxFrom(duties, slot, i + 1,
                          IF DutyOfSlot(duties[i], slot) THEN duties[i].ValidatorIndex
                          ELSE proposerValIdx)

MissingBlock(slot, duties, err) ==
  LET proposerValIdx == IF err THEN 0 ELSE ProposerValIdxFrom(duties, slot, 1, 0)
  IN [ZeroBlock EXCEPT !.Slot = slot, !.ProposerIndex = proposerValIdx,
                       !.Graffiti = 0, !.Attestations = <<>>, !.Deposits = <<>>]

CreateMissingBlock ==
  /\ args.kind = "missing"
  /\ out = <<>>
  /\ out' = MissingBlock(args.slot,
                         ProposerDuties(args.table, args.gap, args.slot \div SlotsPerEpoch),
                         args.err)
  /\ UNCHANGED <<loop, args, life>>

NextMissing == CreateMissingBlock

SpecMissing == InitMissing /\ [][NextMissing]_vars

(* ------------------------------------------------------------------ *)
(* ChainAnalyzer.ProcessBlock and the download cache it waits on.      *)
(* life holds the cache, the downloader and one block processor per    *)
(* slot; out holds the rows handed to the database.                    *)
(* ------------------------------------------------------------------ *)
\* the slots downloaded and processed, and the most items of one kind in a block
MaxProcSlot == 2
MaxItems == 2

ProcSlots == 1..MaxProcSlot

\* the i-th item of a list inside a block of a slot
ItemsOf(slot, n) == [i \in 1..n |-> [Index |-> slot * (MaxItems + 1) + i, ValidatorIndex |-> i]]

\* the blocks RequestBeaconBlock may answer with for a slot: a missed one or a
\* proposed one with up to MaxItems withdrawals, deposits and changes
BeaconBlocks(slot) ==
  {[ZeroBlock EXCEPT !.Slot = slot]}
  \cup {[ZeroBlock EXCEPT !.Slot = slot, !.Proposed = TRUE, !.ProposerIndex = 1,
                          !.Deposits = ItemsOf(slot, nd),
                          !.BLSToExecutionChanges = ItemsOf(slot, nb),
                          !.ExecutionPayload.Withdrawals = ItemsOf(slot, nw),
                          !.ExecutionPayload.Transactions = ItemsOf(slot, nt)] :
          nd \in 0..MaxItems, nb \in 0..MaxItems, nw \in 0..MaxItems, nt \in 0..1}

\* an entry of BlockHistory: absent entries read as the zero value
NoEntry == [ok |-> FALSE, block |-> ZeroBlock]

NoRows == [blocks |-> <<>>, withdrawals |-> <<>>, deposits |-> <<>>,
           blsChanges |-> <<>>, transactions |-> <<>>, blobs |-> <<>>]

InitProcess ==
  \E block \in BOOLEAN : \E transactions \in BOOLEAN :
    /\ NoLoop
    /\ args = [kind |-> "process", metrics |-> [Block |-> block, Transactions |-> transactions]]
    /\ life = [BlockHistory |-> [s \in ProcSlots |-> NoEntry],
               downloader |-> "running",
               cancelled |-> FALSE,
               pc |-> [s \in ProcSlots |-> "idle"],
               waited |-> {},
               processerBook |-> {},
               eth1 |-> [s \in ProcSlots |-> "none"]]
    /\ out = NoRows

\* the historical loop asks for the slots in order
NextDownload == IF \A s \in ProcSlots : life.BlockHistory[s].ok THEN MaxProcSlot + 1
                ELSE CHOOSE s \in ProcSlots :
                       /\ ~life.BlockHistory[s].ok
                       /\ \A t \in ProcSlots : t < s => life.BlockHistory[t].ok

\* DownloadNewBlock: request the block, panic on an error, add it to the cache
DownloadToCache(slot) ==
  /\ args.kind = "process"
  /\ life.downloader = "running"
  /\ ~life.cancelled
  /\ slot = NextDownload
  /\ \/ life' = [life EXCEPT !.downloader = "panicked"]
     \/ \E newBlock \in BeaconBlocks(slot) :
          life' = [life EXCEPT !.BlockHistory[slot] = [ok |-> TRUE, block |-> newBlock]]
  /\ UNCHANGED <<loop, args, out>>

\* the context of the analyzer is cancelled
CancelContext ==
  /\ args.kind = "process"
  /\ ~life.cancelled
  /\ life' = [life EXCEPT !.cancelled = TRUE]
  /\ UNCHANGED <<loop, args, out>>

\* routineKey := fmt.Sprintf("%s%d", slotProcesserTag, slot)
RoutineKey(slot) == <<"slot=", slot>>

\* the process book: Acquire registers a key, FreePage removes it
Acquire(book, key) == book \cup {key}
FreePage(book, key) == book \ {key}

\* ProcessBlock up to the call of Wait
ProcessBlockStart(slot) ==
  /\ args.kind = "process"
  /\ life.pc[slot] = "idle"
  /\ life' = IF ~args.metrics.Block
             THEN [life EXCEPT !.pc[slot] = "done"]
             ELSE [life EXCEPT !.pc[slot] = "waiting",
                               !.waited = IF life.BlockHistory[slot].ok THEN @ ELSE @ \cup {slot},
                               !.processerBook = Acquire(@, RoutineKey(slot))]
  /\ UNCHANGED <<loop, args, out>>

\* Wait(slot) returns once the block of the slot has been added
WaitOver(history, slot) == history[slot].ok

\* processWithdrawals
WithdrawalRows(block) ==
  [i \in 1..Len(block.ExecutionPayload.Withdrawals) |->
     [Slot |-> block.Slot, Index |-> block.ExecutionPayload.Withdrawals[i].Index,
      ValidatorIndex |-> block.ExecutionPayload.Withdrawals[i].ValidatorIndex]]

\* processBLSToExecutionChanges
BLSToExecutionChangeRows(block) ==
  [i \in 1..Len(block.BLSToExecutionChanges) |->
     [Slot |-> block.Slot, Epoch |-> block.Slot \div SlotsPerEpoch,
      ValidatorIndex |-> block.BLSToExecutionChanges[i].ValidatorIndex]]

DepositIndexOne(i) == 1
\* Index: uint8(i)
DepositIndex(i) == i % (2 ^ 8)

\* processDeposits: Go counts the deposits from 0
DepositRows(block) ==
  [i \in 1..Len(block.Deposits) |->
     [Slot |-> block.Slot, Amount |-> block.Deposits[i].Index, Index |-> DepositIndex(i - 1)]]

\* processTransactions
TransactionRows(block) ==
  [i \in 1..Len(block.ExecutionPayload.Transactions) |->
     [Slot |-> block.Slot, Hash |-> block.ExecutionPayload.Transactions[i].Index]]

\* processBlobSidecars: the explored transactions carry one blob each
BlobRows(block) ==
  [i \in 1..Len(block.ExecutionPayload.Transactions) |->
     [Slot |-> block.Slot, TxHash |-> block.ExecutionPayload.Transactions[i].Index]]

ETH1RowsParseIgnored(rows, block, receiptsFail, parseFail) ==
  IF receiptsFail THEN rows
  ELSE [rows EXCEPT !.transactions = @ \o TransactionRows(block),
                    !.blobs = @ \o BlobRows(block)]
\* ProcessETH1Data: nothing is persisted when the receipts cannot be read or
\* the transactions cannot be parsed
ETH1Rows(rows, block, receiptsFail, parseFail) ==
  IF receiptsFail THEN rows
  ELSE IF parseFail THEN rows
  ELSE [rows EXCEPT !.transactions = @ \o TransactionRows(block),
                    !.blobs = @ \o BlobRows(block)]

BlockRowZero(block) == ZeroBlock
\* PersistBlocks([]spec.AgnosticBlock{*block})
BlockRow(block) == block

\* the rows ProcessBlock persists once Wait has returned the block
ProcessRows(rows, block, metrics, receiptsFail, parseFail) ==
  LET persisted == [rows EXCEPT !.blocks = Append(@, BlockRow(block)),
                                !.withdrawals = @ \o WithdrawalRows(block),
                                !.blsChanges = @ \o BLSToExecutionChangeRows(block),
                                !.deposits = @ \o DepositRows(block)]
  IN IF metrics.Transactions THEN ETH1Rows(persisted, block, receiptsFail, parseFail)
     ELSE persisted

\* how ProcessETH1Data ended, "none" when it was not called
ETH1Outcome(metrics, receiptsFail, parseFail) ==
  IF ~metrics.Transactions THEN "none"
  ELSE IF receiptsFail THEN "receipts"
  ELSE IF parseFail THEN "parse"
  ELSE "ok"

\* ProcessBlock from the return of Wait to its end
ProcessBlockPersist(slot) ==
  /\ args.kind = "process"
  /\ life.pc[slot] = "waiting"
  /\ WaitOver(life.BlockHistory, slot)
  /\ \E receiptsFail \in BOOLEAN : \E parseFail \in BOOLEAN :
       /\ out' = ProcessRows(out, life.BlockHistory[slot].block, args.metrics,
                             receiptsFail, parseFail)
       /\ life' = [life EXCEPT !.pc[slot] = "done",
                               !.eth1[slot] = ETH1Outcome(args.metrics, receiptsFail, parseFail),
                               !.processerBook = FreePage(@, RoutineKey(slot))]
  /\ UNCHANGED <<loop, args>>

\* Wait gives up when the context is cancelled: there is no block to persist
ProcessBlockCancelled(slot) ==
  /\ args.kind = "process"
  /\ life.pc[slot] = "waiting"
  /\ life.cancelled
  /\ ~life.BlockHistory[slot].ok
  /\ life' = [life EXCEPT !.pc[slot] = "stopped"]
  /\ UNCHANGED <<loop, args, out>>

NextProcess ==
  \/ \E slot \in ProcSlots : DownloadToCache(slot)
  \/ CancelContext
  \/ \E slot \in ProcSlots : ProcessBlockStart(slot)
  \/ \E slot \in ProcSlots : ProcessBlockPersist(slot)
  \/ \E slot \in ProcSlots : ProcessBlockCancelled(slot)

SpecProcess == InitProcess /\ [][NextProcess]_vars

(* ------------------------------------------------------------------ *)
(* The transactions table: UpsertTransaction executed once per         *)
(* persisted transaction.  life holds the transactions persisted so    *)
(* far, out the rows of the table.                                     *)
(* ------------------------------------------------------------------ *)
\* the distinct transactions explored and the number of persists
MaxTx == 3
MaxPersists == 4

\* the transaction with a hash: its slot, its value and its receiver, nil for the first
Transactions ==
  {[Hash |-> h, Slot |-> (h % 2) + 1, Value |-> h * 10, To |-> IF h = 1 THEN "nil" ELSE "0xa"] :
     h \in 1..MaxTx}

InitTransactions ==
  /\ NoLoop
  /\ args = [kind |-> "transactions"]
  /\ life = <<>>
  /\ out = <<>>

\* insertTransaction: the arguments of the query
insertTransaction(transaction) ==
  [f_value |-> transaction.Value,
   f_to |-> IF transaction.To # "nil" THEN transaction.To ELSE "",
   f_hash |-> transaction.Hash,
   f_slot |-> transaction.Slot]

\* the key of the table: a row conflicts with a row of the same hash
Conflicts(table, row) == \E i \in 1..Len(table) : table[i].f_hash = row.f_hash

OnConflictInsert(table, row) == Append(table, row)
\* ON CONFLICT DO NOTHING
OnConflict(table, row) == table

\* INSERT INTO t_transactions ... VALUES ...
UpsertTransaction(table, row) ==
  IF Conflicts(table, row) THEN OnConflict(table, row) ELSE Append(table, row)

PersistTransaction(transaction) ==
  /\ args.kind = "transactions"
  /\ Len(life) < MaxPersists
  /\ life' = Append(life, transaction)
  /\ out' = UpsertTransaction(out, insertTransaction(transaction))
  /\ UNCHANGED <<loop, args>>

NextTransactions == \E transaction \in Transactions : PersistTransaction(transaction)

SpecTransactions == InitTransactions /\ [][NextTransactions]_vars

(* ------------------------------------------------------------------ *)
(* AgnosticState.GetValStatus and AgnosticState.Balance: the readers   *)
(* of one validator of a state.  An index past the end of a Go slice   *)
(* ends the call with a panic.                                         *)
(* ------------------------------------------------------------------ *)
\* the validators explored: every combination of activation, exit and slashing
StatusValidatorKinds ==
  [ActivationEpoch : {0, 1, FarFutureEpoch}, ExitEpoch : {1, 2, FarFutureEpoch},
   Slashed : BOOLEAN]
StatusValidatorLists == UNION { [1..n -> StatusValidatorKinds] : n \in 0..MaxValidators }

InitReaders ==
  \E epoch \in 0..MaxEpoch : \E validators \in StatusValidatorLists :
    /\ NoLoop
    /\ args = [kind |-> "readers",
               p |-> [EmptyAgnosticState EXCEPT
                        !.Epoch = epoch,
                        !.Slot = epoch * SlotsPerEpoch,
                        !.Validators = validators,
                        !.Balances = [i \in DOMAIN validators |-> 32 + i]]]
    /\ life = <<>>
    /\ out = <<>>

\* variant: slashing is looked at before the exit epoch
ValStatusSlashedFirst(p, valIdx) ==
  IF valIdx >= Len(p.Validators) THEN [panic |-> TRUE, status |-> ""]
  ELSE LET val == p.Validators[valIdx + 1]
       IN [panic |-> FALSE,
           status |-> IF val.Slashed THEN "SLASHED"
                      ELSE IF val.ExitEpoch <= p.Epoch THEN "EXIT"
                      ELSE IF val.ActivationEpoch <= p.Epoch THEN "ACTIVE"
                      ELSE "QUEUE"]
\* GetValStatus: valIdx is the index counted from 0
ValStatus(p, valIdx) ==
  IF valIdx >= Len(p.Validators) THEN [panic |-> TRUE, status |-> ""]
  ELSE LET val == p.Validators[valIdx + 1]
       IN [panic |-> FALSE,
           status |-> IF val.ExitEpoch <= p.Epoch THEN "EXIT"
                      ELSE IF val.Slashed THEN "SLASHED"
                      ELSE IF val.ActivationEpoch <= p.Epoch THEN "ACTIVE"
                      ELSE "QUEUE"]

GetValStatus(valIdx) ==
  /\ args.kind = "readers"
  /\ out = <<>>
  /\ out' = [fn |-> "GetValStatus", valIdx |-> valIdx] @@ ValStatus(args.p, valIdx)
  /\ UNCHANGED <<loop, args, life>>

\* Balance: the error is returned only when len(p.Balances) < valIdx
BalanceOf(p, valIdx) ==
  IF Len(p.Balances) < valIdx
  THEN [panic |-> FALSE, err |-> TRUE, balance |-> 0]
  ELSE IF valIdx >= Len(p.Balances)
       THEN [panic |-> TRUE, err |-> FALSE, balance |-> 0]
       ELSE [panic |-> FALSE, err |-> FALSE, balance |-> p.Balances[valIdx + 1]]

Balance(valIdx) ==
  /\ args.kind = "readers"
  /\ out = <<>>
  /\ out' = [fn |-> "Balance", valIdx |-> valIdx] @@ BalanceOf(args.p, valIdx)
  /\ UNCHANGED <<loop, args, life>>

\* the indexes asked for: those of the list and the two past its end
ReaderInputs == IF args.kind = "readers" THEN 0..(Len(args.p.Validators) + 1) ELSE {}

NextReaders ==
  \/ \E valIdx \in ReaderInputs : GetValStatus(valIdx)
  \/ \E valIdx \in ReaderInputs : Balance(valIdx)

SpecReaders == InitReaders /\ [][NextReaders]_vars

(* ------------------------------------------------------------------ *)
(* StateAnalyzer.Run with its routines and the two task channels.      *)
(* life holds the position of Run, the routines and the channels.      *)
(* ------------------------------------------------------------------ *)
\* the epoch tasks the downloaders have to emit in a run
MaxEpochTasks == 2

\* EpochTaskChan: make(chan *EpochTask, 1)
EpochTaskChanCap == 1
\* ValTaskChan: make(chan *ValTask, workerNum)
ValTaskChanCap(workerNum) == workerNum

InitPipeline ==
  \E mode \in DownloadModes : \E workerNum \in 0..MaxWorkers :
    /\ NoLoop
    /\ args = [kind |-> "pipeline", downloadMode |-> mode, validatorWorkerNum |-> workerNum]
    /\ life = [run |-> "start", finishDownload |-> FALSE,
               historical |-> "none", finalized |-> "none", process |-> "none", workers |-> 0,
               left |-> MaxEpochTasks, EpochTaskChan |-> 0, sending |-> 0, ValTaskChan |-> 0,
               downloadFinishedFlag |-> FALSE, processFinishedFlag |-> FALSE]
    /\ out = <<>>

\* Run: the launch of the routines, the three waits, the database drain and the return
RunPipeline ==
  /\ args.kind = "pipeline"
  /\ \/ /\ life.run = "start"
        /\ life' = [life EXCEPT
                      !.run = "waitDownload",
                      !.historical = IF args.downloadMode \in {"hybrid", "historical"}
                                     THEN "running" ELSE "none",
                      !.finalized = IF args.downloadMode \in {"hybrid", "finalized"}
                                    THEN "running" ELSE "none",
                      !.process = "running",
                      !.workers = args.validatorWorkerNum]
     \/ /\ life.run = "waitDownload"
        /\ life.historical # "running" /\ life.finalized # "running"
        /\ life' = [life EXCEPT !.run = "waitProcess", !.downloadFinishedFlag = TRUE]
     \/ /\ life.run = "waitProcess"
        /\ life.process # "running"
        /\ life' = [life EXCEPT !.run = "waitWorkers", !.processFinishedFlag = TRUE]
     \/ /\ life.run = "waitWorkers"
        /\ life.workers = 0
        /\ life' = [life EXCEPT !.run = "waitDB"]
     \/ /\ life.run = "waitDB"
        /\ life' = [life EXCEPT !.run = "returned"]
  /\ UNCHANGED <<loop, args, out>>

\* the historical downloader: it emits the epoch tasks in order and returns
\* after the last one, or at the next iteration once the stop flag is set
runDownloadStates ==
  /\ args.kind = "pipeline"
  /\ life.historical = "running"
  /\ \/ /\ ~life.finishDownload /\ life.left > 0
        /\ life.EpochTaskChan < EpochTaskChanCap
        /\ life' = [life EXCEPT !.left = @ - 1, !.EpochTaskChan = @ + 1]
     \/ /\ life.finishDownload \/ life.left = 0
        /\ life' = [life EXCEPT !.historical = "returned"]
  /\ UNCHANGED <<loop, args, out>>

\* the live downloader: it emits epoch tasks as the chain grows and returns
\* only once the stop flag is set
runDownloadStatesFinalized ==
  /\ args.kind = "pipeline"
  /\ life.finalized = "running"
  /\ \/ /\ ~life.finishDownload /\ life.left > 0
        /\ life.EpochTaskChan < EpochTaskChanCap
        /\ life' = [life EXCEPT !.left = @ - 1, !.EpochTaskChan = @ + 1]
     \/ /\ life.finishDownload
        /\ life' = [life EXCEPT !.finalized = "returned"]
  /\ UNCHANGED <<loop, args, out>>

\* the processing routine: it takes an epoch task, sends its validator task
\* to the workers, and returns when the downloads are finished and no task is left
runProcessState ==
  /\ args.kind = "pipeline"
  /\ life.process = "running"
  /\ \/ /\ life.sending = 0 /\ life.EpochTaskChan > 0
        /\ life' = [life EXCEPT !.EpochTaskChan = @ - 1, !.sending = 1]
     \/ /\ life.sending > 0
        /\ life.ValTaskChan < ValTaskChanCap(args.validatorWorkerNum)
        /\ life' = [life EXCEPT !.sending = @ - 1, !.ValTaskChan = @ + 1]
     \/ /\ life.sending = 0 /\ life.EpochTaskChan = 0 /\ life.downloadFinishedFlag
        /\ life' = [life EXCEPT !.process = "returned"]
  /\ UNCHANGED <<loop, args, out>>

\* a validator worker: it takes a validator task, and returns when the
\* processing is finished and no task is left
runWorker ==
  /\ args.kind = "pipeline"
  /\ life.workers > 0
  /\ \/ /\ life.ValTaskChan > 0
        /\ life' = [life EXCEPT !.ValTaskChan = @ - 1]
     \/ /\ life.ValTaskChan = 0 /\ life.processFinishedFlag
        /\ life' = [life EXCEPT !.workers = @ - 1]
  /\ UNCHANGED <<loop, args, out>>

\* Close: s.finishDownload = true
CloseRequested ==
  /\ args.kind = "pipeline"
  /\ life.run # "returned"
  /\ ~life.finishDownload
  /\ life' = [life EXCEPT !.finishDownload = TRUE]
  /\ UNCHANGED <<loop, args, out>>

NextPipeline ==
  \/ RunPipeline
  \/ runDownloadStates
  \/ runDownloadStatesFinalized
  \/ runProcessState
  \/ runWorker
  \/ CloseRequested

SpecPipeline == InitPipeline /\ [][NextPipeline]_vars

\* every routine that can take a step eventually takes one; Close need not be called
SpecPipelineFair ==
  /\ SpecPipeline
  /\ WF_vars(RunPipeline)
  /\ WF_vars(runDownloadStates)
  /\ WF_vars(runDownloadStatesFinalized)
  /\ WF_vars(runProcessState)
  /\ WF_vars(runWorker)

(* ------------------------------------------------------------------ *)
(* ChainAnalyzer.ProcessBlock with one routine per transaction         *)
(* (src/unnamed/part_000). life.routines counts, per slot, the         *)
(* transaction routines that have not yet called Persist.              *)
(* ------------------------------------------------------------------ *)
\* the blocks of a slot: a missed one, or a proposed one with up to one
\* withdrawal and up to MaxItems transactions
BookBlocks(slot) ==
  {[ZeroBlock EXCEPT !.Slot = slot]}
  \cup {[ZeroBlock EXCEPT !.Slot = slot, !.Proposed = TRUE, !.ProposerIndex = 1,
                          !.ExecutionPayload.Withdrawals = ItemsOf(slot, nw),
                          !.ExecutionPayload.Transactions = ItemsOf(slot, nt)] :
          nw \in 0..1, nt \in 0..MaxItems}

InitBook ==
  \E block \in BOOLEAN : \E transactions \in BOOLEAN :
    /\ NoLoop
    /\ args = [kind |-> "book", metrics |-> [Block |-> block, Transactions |-> transactions]]
    /\ life = [BlockHistory |-> [s \in ProcSlots |-> NoEntry],
               pc |-> [s \in ProcSlots |-> "idle"],
               processerBook |-> {},
               routines |-> [s \in ProcSlots |-> 0]]
    /\ out = NoRows

\* the downloader adds the block of a slot to the cache
AddToCache(slot) ==
  /\ args.kind = "book"
  /\ ~life.BlockHistory[slot].ok
  /\ \E newBlock \in BookBlocks(slot) :
       life' = [life EXCEPT !.BlockHistory[slot] = [ok |-> TRUE, block |-> newBlock]]
  /\ UNCHANGED <<loop, args, out>>

\* ProcessBlock up to the call of Wait: the early return and Acquire
ProcessBlockAcquire(slot) ==
  /\ args.kind = "book"
  /\ life.pc[slot] = "idle"
  /\ life' = IF ~args.metrics.Block
             THEN [life EXCEPT !.pc[slot] = "done"]
             ELSE [life EXCEPT !.pc[slot] = "waiting",
                               !.processerBook = Acquire(@, RoutineKey(slot))]
  /\ UNCHANGED <<loop, args, out>>

\* processTransactions: one routine is started per transaction of the block
StartedRoutines(block, metrics) ==
  IF metrics.Transactions THEN Len(block.ExecutionPayload.Transactions) ELSE 0

\* ProcessBlock from the return of Wait to its end: the block and the
\* withdrawals are persisted, the transaction routines started, the key freed
ProcessBlockFree(slot) ==
  /\ args.kind = "book"
  /\ life.pc[slot] = "waiting"
  /\ WaitOver(life.BlockHistory, slot)
  /\ \E block \in {life.BlockHistory[slot].block} :
       /\ out' = [out EXCEPT !.blocks = Append(@, BlockRow(block)),
                             !.withdrawals = @ \o WithdrawalRows(block)]
       /\ life' = [life EXCEPT !.pc[slot] = "done",
                               !.routines[slot] = StartedRoutines(block, args.metrics),
                               !.processerBook = FreePage(@, RoutineKey(slot))]
  /\ UNCHANGED <<loop, args>>

\* a transaction routine: it requests the details and persists the transaction
TransactionRoutine(slot) ==
  /\ args.kind = "book"
  /\ life.routines[slot] > 0
  /\ \E block \in {life.BlockHistory[slot].block} :
       \E i \in {Len(block.ExecutionPayload.Transactions) + 1 - life.routines[slot]} :
         out' = [out EXCEPT !.transactions =
                   Append(@, [Slot |-> block.Slot,
                              Hash |-> block.ExecutionPayload.Transactions[i].Index])]
  /\ life' = [life EXCEPT !.routines[slot] = @ - 1]
  /\ UNCHANGED <<loop, args>>

NextBook ==
  \/ \E slot \in ProcSlots : AddToCache(slot)
  \/ \E slot \in ProcSlots : ProcessBlockAcquire(slot)
  \/ \E slot \in ProcSlots : ProcessBlockFree(slot)
  \/ \E slot \in ProcSlots : TransactionRoutine(slot)

SpecBook == InitBook /\ [][NextBook]_vars

(* ------------------------------------------------------------------ *)
(* Properties                                                          *)
(* ------------------------------------------------------------------ *)
IsOrphan(r) == r.model = "Orphan"
RowsOf(model) == {k \in DOMAIN issued : issued[k].model = model}
ArgsOf(model) == {issued[k].arg : k \in RowsOf(model)}
SeqRange(a, b) == [k \in 1..(b - a + 1) |-> a + k - 1]
\* the last handler was a reorg event the live loop acted upon
HandledReorg == ev.type = "reorg" /\ ev.handled
\* a step in which the live loop acts upon a reorg event
ReorgStep == pc = "select" /\ ev'.type = "reorg" /\ ev'.handled
\* the last handler was a checkpoint check that found a mismatch / found none
Mismatch == ev.type = "finalized" /\ ev.outcome = "mismatch"
AllMatch == ev.type = "finalized" /\ ev.outcome = "ok"

\* C1: handling a reorg with base slot b and slot r persists, for every slot i in
\* [b, r), exactly one orphan row if the cache held a block at i before the
\* step and none otherwise; the row carries the block the cache held before the
\* step, and after the step the cache holds nothing at or above b.
C1_OrphansFromPreReorgCache ==
  [][ReorgStep =>
       LET orphans == SelectSeq(issued', IsOrphan)
       IN /\ \A i \in ev'.base..(ev'.slot - 1) :
               Cardinality({k \in DOMAIN orphans : orphans[k].arg = i})
                 = IF i \in DOMAIN queue.BlockHistory THEN 1 ELSE 0
          /\ \A k \in DOMAIN orphans :
               /\ orphans[k].arg \in ev'.base..(ev'.slot - 1)
               /\ orphans[k].arg \in DOMAIN queue.BlockHistory
               /\ orphans[k].root = queue.BlockHistory[orphans[k].arg].root
          /\ \A i \in DOMAIN queue'.BlockHistory : i < ev'.base]_vars

\* a handled reorg that persisted an orphan and whose range holds an uncached slot
C1_Witness ==
  /\ HandledReorg
  /\ RowsOf("Orphan") # {}
  /\ Cardinality(RowsOf("Orphan")) < ev.slot - ev.base

\* C2: a handled reorg issues the block, transaction and withdrawal drops once
\* each, from the base slot; it issues the epoch, proposer-duties and
\* validator-rewards drops exactly when the reorg slot is the last of its epoch
\* or base and reorg slot lie in different epochs, and none of them otherwise.
C2_ReorgDrops ==
  HandledReorg =>
    /\ \A model \in {"BlockDrop", "TransactionDrop", "WithdrawalDrop"} :
         Cardinality(RowsOf(model)) = 1 /\ ArgsOf(model) = {ev.base}
    /\ \A model \in {"EpochDrop", "ProposerDutiesDrop", "ValidatorRewardsDrop"} :
         Cardinality(RowsOf(model))
           = IF \/ ev.slot % SlotsPerEpoch = SlotsPerEpoch - 1
                \/ ev.base \div SlotsPerEpoch # ev.slot \div SlotsPerEpoch
             THEN 1 ELSE 0

\* a handled reorg at the last slot of an epoch whose base lies in the same epoch
C2_Witness ==
  /\ HandledReorg
  /\ ev.slot % SlotsPerEpoch = SlotsPerEpoch - 1
  /\ ev.base \div SlotsPerEpoch = ev.slot \div SlotsPerEpoch
  /\ RowsOf("EpochDrop") # {}

\* C3: right after a handled reorg the next slot to download is the cache head's
\* slot plus one, and a head event h at or above the reorg slot that follows it
\* downloads every slot of [base, h] exactly once, in increasing order.
C3_RedownloadAfterReorg ==
  /\ HandledReorg => nextSlotDownload = queue.HeadBlock.slot + 1
  /\ (pc = "select" /\ ev.type = "head" /\ ev.reorg # <<>> /\ ev.slot >= ev.reorg[2])
       => LET fromBase(s) == s >= ev.reorg[1]
          IN SelectSeq(downloaded, fromBase) = SeqRange(ev.reorg[1], ev.slot)

\* a head event handled after a reorg of depth two has downloaded the base again
C3_Witness ==
  /\ pc = "select" /\ ev.type = "head" /\ ev.reorg # <<>>
  /\ ev.slot >= ev.reorg[2]
  /\ ev.reorg[2] - ev.reorg[1] = 2
  /\ Len(downloaded) >= 3

\* the cached slots a checkpoint check that found no mismatch has compared
Compared == {s \in DOMAIN queue.BlockHistory : ev.from <= s /\ s < ev.slot}

\* C4 (as stated): a checkpoint check requests the state root of every slot in
\* (last finalized slot, checkpoint slot], and when all roots match and the
\* block at the checkpoint slot is cached the finalized anchor ends at the
\* checkpoint slot.
C4_Original ==
  (AllMatch /\ ev.from < ev.slot) =>
    /\ ev.asked = {s \in Slots : ev.from < s /\ s <= ev.slot}
    /\ ev.slot \in DOMAIN queue.BlockHistory => queue.LatestFinalized.slot = ev.slot

\* C4 (amended): a checkpoint check requests the state root of every slot in
\* [last finalized slot, checkpoint slot), lower bound included and checkpoint
\* slot excluded, and when all roots match the finalized anchor ends at the
\* highest cached slot of that range: the checkpoint slot minus one when the
\* block at that slot is cached.
C4_CheckRange ==
  (AllMatch /\ ev.from < ev.slot) =>
    /\ ev.asked = {s \in Slots : ev.from <= s /\ s < ev.slot}
    /\ Compared # {}
    /\ queue.LatestFinalized.slot = MaxOf(Compared)
    /\ (ev.slot - 1) \in DOMAIN queue.BlockHistory
         => queue.LatestFinalized.slot = ev.slot - 1

\* a check over a range of at least two slots that found every root matching,
\* with the blocks at the checkpoint slot and the slot before it cached
C4_Witness ==
  /\ AllMatch
  /\ ev.from + 1 < ev.slot
  /\ ev.slot \in DOMAIN queue.BlockHistory
  /\ (ev.slot - 1) \in DOMAIN queue.BlockHistory

C6_RewindBelowMismatch ==
  Mismatch =>
    /\ \A s \in ev.asked : s <= ev.m
    /\ queue = NewStateQueue(RequestBeaconBlock(ev.slot))
    /\ nextSlotDownload = ev.m - epochsToFinalizedTentative * SlotsPerEpoch
    /\ nextSlotDownload <= ev.m

\* C7: once the drops of a rewind to slot m (a handled reorg with base m, or a
\* mismatch at m) are executed, no block-scoped table holds a row with slot at
\* or above m.
C7_NoRowsFromRewindSlot ==
  /\ HandledReorg => \A s \in blockRows \cup txRows \cup wdRows : s < ev.base
  /\ Mismatch => \A s \in blockRows \cup txRows \cup wdRows : s < ev.m

\* C8: the finalized slot of the cache never exceeds its head slot.
C8_FinalizedLeHead == queue.LatestFinalized.slot <= queue.HeadBlock.slot

\* C9: the finalized slot of the cache never decreases, except in the step that
\* handles a checkpoint mismatch.
C9_FinalizedMonotone ==
  [][~(pc = "select" /\ ev'.type = "finalized" /\ ev'.outcome = "mismatch")
       => queue'.LatestFinalized.slot >= queue.LatestFinalized.slot]_vars

\* a checkpoint at or below the finalized slot was handled after the finalized
\* slot had left its starting value
C9_Witness ==
  /\ AllMatch
  /\ ev.slot <= ev.from
  /\ ev.from % SlotsPerEpoch # 0

\* C10: between event handlers every slot from the finalized slot to the head
\* slot of the cache has a cache entry.
C10_NoGaps ==
  pc = "select" =>
    \A s \in queue.LatestFinalized.slot..queue.HeadBlock.slot : s \in DOMAIN queue.BlockHistory

\* between handlers, after a reorg was handled and its slots downloaded again,
\* with the head of the cache above its finalized slot
C10_Witness ==
  /\ pc = "select" /\ ev.type = "head" /\ ev.reorg # <<>>
  /\ queue.HeadBlock.slot > queue.LatestFinalized.slot + 1
  /\ queue.HeadBlock.slot = ev.slot

IntMax(a, b) == IF a >= b THEN a ELSE b
\* the state in which the catch-up loop is entered
AtStart == args.kind = "live" /\ pc = "catchup" /\ downloaded = <<>>
\* a step that downloads a block
DownloadStep == Len(downloaded') = Len(downloaded) + 1

\* C11: when the live loop starts, the next slot to download is the larger of
\* (last persisted slot - 64) and the finalized slot, whatever the last
\* persisted slot is (none, below 64, at or above 64).
C11_StartIsMax ==
  AtStart =>
    nextSlotDownload
      = IntMax(args.last - epochsToFinalizedTentative * SlotsPerEpoch, args.finalized)

C13_HeadEventDownloads ==
  [][/\ (pc = "select" /\ pc' = "head")
          => queue' = queue /\ nextSlotDownload' = nextSlotDownload
     /\ (pc = "head" /\ pc' = "select")
          => /\ queue' = queue /\ nextSlotDownload' = nextSlotDownload
             /\ IF ev.next <= ev.slot
                THEN /\ downloaded = SeqRange(ev.next, ev.slot)
                     /\ nextSlotDownload = ev.slot + 1
                ELSE /\ downloaded = <<>>
                     /\ nextSlotDownload = ev.next
                     /\ queue.HeadBlock.slot < ev.next
     /\ (reorgs' = <<0, 0>> /\ DownloadStep)
          => /\ ~stop
             /\ downloaded'[Len(downloaded')] = nextSlotDownload
             /\ nextSlotDownload' = nextSlotDownload + 1
     /\ (reorgs' = <<0, 0>> /\ ~stop')
          => nextSlotDownload' >= nextSlotDownload]_vars

\* a head event that downloaded at least two slots has been handled
C13_Witness ==
  /\ pc = "select" /\ ev.type = "head"
  /\ Len(downloaded) >= 2
  /\ nextSlotDownload = ev.slot + 1

\* the slots of a sequence
Range(seq) == {seq[k] : k \in DOMAIN seq}
LastSlotOfEpoch(slot) == slot % SlotsPerEpoch = SlotsPerEpoch - 1

\* C14: a historical loop that ran through its range, neither cancelled nor
\* stopped, has downloaded (and emitted a block task for) every slot of
\* [init_slot, final_slot], both bounds included, once each and in increasing
\* order.
C14_HistoricalRange ==
  (args.kind = "historical" /\ pc = "finished")
    => downloaded = SeqRange(args.initSlot, args.finalSlot)

\* C15: in both download loops the states requested so far are exactly the
\* slots s with s % 32 = 31 among the blocks downloaded so far, in the same
\* order: a state is requested exactly when the block just downloaded is the
\* last of its epoch, it is the state of that block's slot, and every state
\* requested is at a slot whose block was downloaded.
C15_StateAtLastSlotOfEpoch ==
  /\ states = SelectSeq(downloaded, LastSlotOfEpoch)
  /\ Range(states) \subseteq Range(downloaded)

\* C18 as stated: once the stop flag is set no loop begins a block download.
C18_Original == [][DownloadStep => ~stop]_vars

\* C18: the historical loop and the head-event loop read the stop flag before
\* each download and the catch-up loop reads it after each download: a block
\* download that begins with the flag set is the first download of the
\* catch-up loop, the loop that meets the flag set returns without a further
\* download, and with the flag set the periodic tick ends the event loop.
C18_StopChecked ==
  [][ /\ (DownloadStep /\ stop) => (pc = "catchup" /\ downloaded = <<>>)
      /\ (stop /\ pc \in {"historical", "head"} /\ pc' # pc)
            => (pc' \in {"done", "finished", "select"} /\ downloaded' = downloaded)
      /\ (stop /\ pc = "catchup" /\ downloaded # <<>>) => downloaded' = downloaded
      /\ (stop /\ pc = "select") => ENABLED Tick ]_vars

C18_Witness ==
  /\ stop /\ pc = "done" /\ ev.type = "head"
  /\ downloaded # <<>> /\ nextSlotDownload <= headSlot

\* C16: no call of Close is left waiting for the routine-closed signal after
\* Run has passed its finishDownload check without sending or has returned:
\* every Close receives the signal and returns.
C16_CloseNotStranded ==
  ~(life.close = "waiting" /\ life.run \in {"return", "returned"})

\* the routines still running and the state of the database queue
AllReturned == life.downloads = 0 /\ life.process = 0 /\ life.workers = 0
IsPrefix(a, b) == Len(a) <= Len(b) /\ a = SubSeq(b, 1, Len(a))

\* C17: the cancellation scope is cancelled, by Run or by Close, only after
\* all download routines, the processing routine and all validator workers
\* have returned and the database client has signalled its queue drained, and
\* the steps occur in the order downloads finished, processing finished,
\* workers finished, database done, cancel.
C17_CancelLast ==
  /\ args.kind = "shutdown" =>
       IsPrefix(life.log, <<"downloads", "processing", "workers", "db", "cancel", "cancel">>)
  /\ (args.kind = "shutdown" /\ life.cancels > 0) =>
       (AllReturned /\ life.db = "closed" /\ life.run \in {"returned", "return"})
  /\ (args.kind = "shutdown" /\ life.downloadFinishedFlag) => life.downloads = 0
  /\ (args.kind = "shutdown" /\ life.processFinishedFlag) => life.process = 0
  /\ (args.kind = "shutdown" /\ life.db # "open") => AllReturned

C17_Witness ==
  /\ args.kind = "shutdown" /\ args.downloadMode = "hybrid" /\ args.validatorWorkerNum = MaxWorkers
  /\ life.run = "returned" /\ life.close = "returned" /\ life.cancels = 2

StepsBy32(seq) == \A k \in 1..(Len(seq) - 1) : seq[k + 1] = seq[k] + SlotsPerEpoch
EpochOf(slot) == slot \div SlotsPerEpoch

\* C19: for historical or hybrid mode with init_slot < final_slot the slot
\* list of NewStateAnalyzer is non-empty, increases by 32, ends at the last
\* slot of epoch(final_slot) + 2 and, when epoch(init_slot) - 2 exists, starts
\* at the last slot of that epoch; ranges with init_slot in epoch 0 or 1
\* included.
C19_SlotRanges ==
  (/\ args.kind = "ranges" /\ out # <<>>
   /\ args.downloadMode \in {"hybrid", "historical"}
   /\ args.initSlot < args.finalSlot)
    => /\ ~out.err
       /\ out.slotRanges # <<>>
       /\ StepsBy32(out.slotRanges)
       /\ out.slotRanges[Len(out.slotRanges)]
            = (EpochOf(args.finalSlot) + 3) * SlotsPerEpoch - 1
       /\ EpochOf(args.initSlot) >= 2
            => out.slotRanges[1] = (EpochOf(args.initSlot) - 1) * SlotsPerEpoch - 1

\* C20: when --workers-num (--db-workers-num) is not given, the analyzer is
\* created and run with 1 validator worker (1 database worker).
C20_DefaultWorkers ==
  (args.kind = "command" /\ out # <<>> /\ out.created)
    => /\ ~IsSet(args.flags, "workers-num") => (out.coworkers = 1 /\ out.run = 1)
       /\ ~IsSet(args.flags, "db-workers-num") => out.dbWorkers = 1

\* the result of GetCustomState when it returned a state
Built == args.kind = "state" /\ out # <<>> /\ ~out.err
\* bit f of a participation byte
BitSet(byte, f) == (byte \div (2^f)) % 2 = 1
\* the sum of g[i] over the indexes i of a set
RECURSIVE SumOver(_, _)
SumOver(g, S) ==
  IF S = {} THEN 0
  ELSE LET i == CHOOSE x \in S : TRUE IN g[i] + SumOver(g, S \ {i})
EffectiveBalances == [i \in DOMAIN args.bstate.Validators |-> args.bstate.Validators[i].EffectiveBalance]
ActiveAt(epoch) ==
  {i \in DOMAIN args.bstate.Validators :
     /\ args.bstate.Validators[i].ActivationEpoch <= epoch
     /\ epoch < args.bstate.Validators[i].ExitEpoch}
StateEpoch == args.bstate.Slot \div SlotsPerEpoch

\* C21: after the previous-epoch participation of an Altair-or-later state is
\* processed, CorrectFlags[f][i] is 1 if bit f of validator i's participation
\* byte is set and 0 otherwise, AttestingBalance[f] is the sum of the
\* effective balances of the validators with bit f set, AttestingVals[i] holds
\* iff one of i's three bits is set, and NumAttestingVals is the number of
\* such validators, each counted once.
C21_Participation ==
  (Built /\ args.bstate.Version # "phase0") =>
    LET part == args.bstate.PreviousEpochParticipation
        st == out.state
    IN /\ \A f \in 0..2 :
            /\ \A i \in DOMAIN part :
                 st.CorrectFlags[f + 1][i] = IF BitSet(part[i], f) THEN 1 ELSE 0
            /\ st.AttestingBalance[f + 1]
                 = SumOver(EffectiveBalances, {i \in DOMAIN part : BitSet(part[i], f)})
       /\ \A i \in DOMAIN part :
            st.AttestingVals[i] <=> (\E f \in 0..2 : BitSet(part[i], f))
       /\ st.NumAttestingVals = Cardinality({i \in DOMAIN part : st.AttestingVals[i]})

C21_Witness ==
  /\ Built /\ args.bstate.Version = "capella"
  /\ args.bstate.PreviousEpochParticipation = <<7, 5>>
  /\ out.state.NumAttestingVals = 2
  /\ out.state.AttestingBalance[2] = args.bstate.Validators[1].EffectiveBalance

\* C22: after Setup, TotalActiveBalance is the sum of the effective balances
\* of the validators active at the state's epoch, TotalActiveRealBalance the
\* sum of their balances and NumActiveVals their number; computing the total
\* again returns the same total and leaves NumActiveVals at that number.
C22_ActiveTotals ==
  Built =>
    /\ out.state.TotalActiveBalance = SumOver(EffectiveBalances, ActiveAt(StateEpoch))
    /\ out.state.TotalActiveRealBalance = SumOver(args.bstate.Balances, ActiveAt(StateEpoch))
    /\ out.state.NumActiveVals = Cardinality(ActiveAt(StateEpoch))
    /\ out.returned # <<>> => out.returned[1] = out.state.TotalActiveBalance

C22_Witness ==
  /\ Built /\ out.returned # <<>>
  /\ Len(out.state.Validators) = 2
  /\ out.state.NumActiveVals = 1
  /\ out.state.TotalActiveBalance # out.state.TotalActiveRealBalance

\* validator index valIdx (from 0) was active in the epoch before the state's
ActiveBefore(valIdx) == StateEpoch >= 1 /\ (valIdx + 1) \in ActiveAt(StateEpoch - 1)

\* C23: MissingFlags(i)[f] holds exactly when validator i was active in the
\* epoch before the state's epoch and CorrectFlags[f][i] = 0; it is all false
\* for a validator not active in that epoch (at state epoch 0 too) and for an
\* index beyond the validator list; GetMissingFlagCount(f) is the number of
\* validators i with MissingFlags(i)[f].
C23_MissingFlags ==
  Built =>
    LET st == out.state
        n == Len(st.Validators)
    IN /\ \A valIdx \in 0..(n + 1) : \A f \in 0..2 :
            MissingFlags(st, valIdx)[f + 1]
              <=> (/\ valIdx < n
                   /\ ActiveBefore(valIdx)
                   /\ st.CorrectFlags[f + 1][valIdx + 1] = 0)
       /\ \A f \in 0..2 :
            GetMissingFlagCount(st, f)
              = Cardinality({valIdx \in 0..(n - 1) : MissingFlags(st, valIdx)[f + 1]})

C23_Witness ==
  /\ Built /\ StateEpoch = 1 /\ args.bstate.Version = "altair"
  /\ Len(out.state.Validators) = 2
  /\ MissingFlags(out.state, 0) = <<TRUE, FALSE, TRUE>>
  /\ MissingFlags(out.state, 1) = <<FALSE, FALSE, FALSE>>
  /\ GetMissingFlagCount(out.state, 0) = 1

\* C24: GetCustomState returns a populated state with the epoch duties
\* attached and no error for every fork of Phase0, Altair, Bellatrix, Capella
\* and Deneb, and an error with an empty state only for another version.
C24_EveryFork ==
  (args.kind = "state" /\ out # <<>>) =>
    IF args.bstate.Version \in {"phase0", "altair", "bellatrix", "capella", "deneb"}
    THEN /\ ~out.err
         /\ out.state.Validators = args.bstate.Validators
         /\ out.state.Balances = args.bstate.Balances
         /\ out.state.EpochStructs = args.epochDuties
    ELSE out.err /\ out.state = EmptyAgnosticState

\* the spec built from the inputs, and the result of a call on it
Scored(fn) == args.kind = "rewards" /\ out # <<>> /\ out.fn = fn
RewardEffective == [i \in DOMAIN args.BState.Validators |-> args.BState.Validators[i].EffectiveBalance]
\* increments of the validators active at the state's epoch
ActiveIncrements ==
  SumOver(RewardEffective,
          {i \in DOMAIN args.BState.Validators :
             /\ args.BState.Validators[i].ActivationEpoch <= args.BState.Slot \div SlotsPerEpoch
             /\ args.BState.Slot \div SlotsPerEpoch < args.BState.Validators[i].ExitEpoch})
    \div EFFECTIVE_BALANCE_INCREMENT
\* increments the code takes as the total: 32 per validator in the genesis epoch
TotalIncrements ==
  IF args.BState.Slot < SlotsPerEpoch
  THEN Len(args.BState.Validators) * MAX_EFFECTIVE_INCREMENTS
  ELSE ActiveIncrements
\* the amount every member of the sync committee can earn in the epoch
SyncAmount ==
  Frac(args.BaseRewardPerInc[1] * TotalIncrements * SYNC_REWARD_WEIGHT,
       args.BaseRewardPerInc[2] * WEIGHT_DENOMINATOR * SYNC_COMMITTEE_SIZE)

\* C25: the maximum reward of validator i is its maximum attestation reward
\* plus its maximum sync-committee reward (returned in whole Gwei); the
\* sync-committee part is 0 when i is not in the sync committee and, when it
\* is, the same amount for every member whatever its effective balance.
C25_MaxRewardParts ==
  Scored("GetMaxReward") =>
    /\ out.result = Whole(FracAdd(out.flagIndexMaxReward, out.syncComMaxReward))
    /\ out.result >= Whole(out.flagIndexMaxReward) + Whole(out.syncComMaxReward)
    /\ out.syncComMaxReward
         = IF (out.valIdx + 1) \in args.PrevBState.CurrentSyncCommittee
           THEN SyncAmount ELSE <<0, 1>>
    /\ \A j \in args.PrevBState.CurrentSyncCommittee :
         MaxReward(NewAltairSpec(args), j - 1).syncComMaxReward = SyncAmount

C25_Witness ==
  /\ Scored("GetMaxReward")
  /\ args.PrevBState.CurrentSyncCommittee = {1, 2}
  /\ args.BState.Validators[1].EffectiveBalance # args.BState.Validators[2].EffectiveBalance
  /\ Whole(out.syncComMaxReward) >= 1
  /\ out.result > Whole(out.flagIndexMaxReward)

\* C26: the realized reward of validator i is balance_after[i] -
\* balance_before[i] as a signed quantity, negative when the balance fell.
C26_SignedReward ==
  Scored("PrevEpochReward") =>
    out.result = args.BState.Balances[out.valIdx + 1] - args.PrevBState.Balances[out.valIdx + 1]

\* increments of the validators that have flag f (from 0) in the participation
AttestingIncrements(f) ==
  SumOver(RewardEffective,
          {i \in DOMAIN args.BState.Validators :
             BitSet(args.BState.PreviousEpochParticipation[i], f)})
    \div EFFECTIVE_BALANCE_INCREMENT
\* base reward of validator valIdx: increments times the whole base reward per increment
BaseRewardOf(valIdx) ==
  (args.PrevBState.Validators[valIdx + 1].EffectiveBalance \div EFFECTIVE_BALANCE_INCREMENT)
    * (args.BaseRewardPerInc[1] \div args.BaseRewardPerInc[2])
\* the sum of the three flag rewards for a total of totalInc increments
FlagRewards(valIdx, totalInc) ==
  Frac(BaseRewardOf(valIdx) * (14 * AttestingIncrements(0) + 26 * AttestingIncrements(1)
                               + 14 * AttestingIncrements(2)),
       totalInc * 64)

\* C27 as stated: the total is the active effective balance for every state.
C27_Original ==
  Scored("GetMaxReward") => out.flagIndexMaxReward = FlagRewards(out.valIdx, ActiveIncrements)

\* C27: the maximum attestation reward of validator i is the sum over the
\* three flags of weight * base_reward * attesting increments / (total
\* increments * 64) with weights 14, 26, 14, the total being the active
\* effective balance for a state at slot 32 or later and 32 increments per
\* validator for a state of the genesis epoch; when every attesting balance
\* equals the total it is 54/64 of the base reward.
C27_FlagRewards ==
  Scored("GetMaxReward") =>
    /\ out.flagIndexMaxReward = FlagRewards(out.valIdx, TotalIncrements)
    /\ (\A f \in 0..2 : AttestingIncrements(f) = TotalIncrements)
         => out.flagIndexMaxReward = Frac(54 * BaseRewardOf(out.valIdx), 64)

C27_Witness ==
  /\ Scored("GetMaxReward")
  /\ args.BState.Slot >= SlotsPerEpoch
  /\ Len(args.BState.Validators) = 2
  /\ \A f \in 0..2 : AttestingIncrements(f) = TotalIncrements
  /\ out.flagIndexMaxReward = Frac(54 * BaseRewardOf(out.valIdx), 64)
  /\ out.flagIndexMaxReward[1] > 0

\* the synthetic block of a missed slot has been built
MissingBuilt == args.kind = "missing" /\ out # <<>>

\* the missed slot is covered by the duties the beacon node answered with
DutyCovered == ~args.err /\ DutyCovers(args.gap, args.slot)

\* C28: the synthetic block of a missed slot is not proposed, has zero
\* graffiti, no attestations, no deposits and a zero execution payload, and
\* for every slot the answered duties cover its proposer index is the
\* validator index of the duty of that slot.
C28_MissingBlock ==
  MissingBuilt =>
    /\ out.Slot = args.slot
    /\ out.Proposed = FALSE
    /\ out.Graffiti = 0
    /\ out.Attestations = <<>>
    /\ out.Deposits = <<>>
    /\ out.ExecutionPayload = ZeroBlock.ExecutionPayload
    /\ DutyCovered => out.ProposerIndex = DutyProposer(args.table, args.slot)

\* a covered missed slot that is not the last of its epoch and whose proposer
\* differs from the proposer of the last slot and from 0
C28_Witness ==
  /\ MissingBuilt
  /\ DutyCovered
  /\ args.slot % SlotsPerEpoch = 3
  /\ out.ProposerIndex # 0
  /\ out.ProposerIndex
       # DutyProposer(args.table, (args.slot \div SlotsPerEpoch) * SlotsPerEpoch + SlotsPerEpoch - 1)

\* the rows of a table tagged with a slot
RowsAt(rows, slot) == SelectSeq(rows, LAMBDA r : r.Slot = slot)

\* ProcessBlock has run to its end for a slot whose block is in the cache
Processed(slot) ==
  /\ args.kind = "process"
  /\ life.pc[slot] = "done"
  /\ life.BlockHistory[slot].ok

\* one block row, and one row per withdrawal, deposit and change of the block
RowsOfBlock(slot) ==
  LET block == life.BlockHistory[slot].block
  IN /\ RowsAt(out.blocks, slot) = <<block>>
     /\ Len(RowsAt(out.withdrawals, slot)) = Len(block.ExecutionPayload.Withdrawals)
     /\ \A i \in 1..Len(block.ExecutionPayload.Withdrawals) :
          RowsAt(out.withdrawals, slot)[i].Index = block.ExecutionPayload.Withdrawals[i].Index
     /\ Len(RowsAt(out.deposits, slot)) = Len(block.Deposits)
     /\ \A i \in 1..Len(block.Deposits) :
          /\ RowsAt(out.deposits, slot)[i].Index = i - 1
          /\ RowsAt(out.deposits, slot)[i].Amount = block.Deposits[i].Index
     /\ Len(RowsAt(out.blsChanges, slot)) = Len(block.BLSToExecutionChanges)
     /\ \A i \in 1..Len(block.BLSToExecutionChanges) :
          RowsAt(out.blsChanges, slot)[i].ValidatorIndex
            = block.BLSToExecutionChanges[i].ValidatorIndex

\* no row of any table is tagged with the slot
NoRowsOf(slot) ==
  /\ RowsAt(out.blocks, slot) = <<>>
  /\ RowsAt(out.withdrawals, slot) = <<>>
  /\ RowsAt(out.deposits, slot) = <<>>
  /\ RowsAt(out.blsChanges, slot) = <<>>
  /\ RowsAt(out.transactions, slot) = <<>>
  /\ RowsAt(out.blobs, slot) = <<>>

Persisted == {life[i] : i \in 1..Len(life)}

\* C31: persisting the same transaction twice leaves the transactions table
\* as persisting it once does: the table holds exactly one row per distinct
\* transaction persisted, and the row is the one its first persist wrote.
C31_UpsertIdempotent ==
  args.kind = "transactions" =>
    /\ Len(out) = Cardinality(Persisted)
    /\ \A transaction \in Persisted :
         Len(SelectSeq(out, LAMBDA r : r = insertTransaction(transaction))) = 1

\* a transaction was persisted twice, another one in between
C31_Witness ==
  /\ args.kind = "transactions"
  /\ Len(life) = 3
  /\ life[1] = life[3]
  /\ life[1] # life[2]
  /\ life[1].To = "nil"
  /\ Len(out) = 2

\* a reader of the state has been called
Read(fn) == args.kind = "readers" /\ out # <<>> /\ out.fn = fn

\* C32: for every validator of the state GetValStatus returns EXIT if the
\* exit epoch is at or before the state's epoch, otherwise SLASHED if the
\* validator is slashed, otherwise ACTIVE if the activation epoch is at or
\* before the state's epoch, otherwise QUEUE; a slashed validator that has
\* exited is EXIT and no validator is ACTIVE at or after its exit epoch.
C32_StatusPriority ==
  (Read("GetValStatus") /\ out.valIdx < Len(args.p.Validators)) =>
    LET val == args.p.Validators[out.valIdx + 1]
        epoch == args.p.Epoch
    IN /\ ~out.panic
       /\ out.status \in {"QUEUE", "ACTIVE", "EXIT", "SLASHED"}
       /\ val.ExitEpoch <= epoch => out.status = "EXIT"
       /\ (val.ExitEpoch > epoch /\ val.Slashed) => out.status = "SLASHED"
       /\ (val.ExitEpoch > epoch /\ ~val.Slashed /\ val.ActivationEpoch <= epoch)
            => out.status = "ACTIVE"
       /\ (val.ExitEpoch > epoch /\ ~val.Slashed /\ val.ActivationEpoch > epoch)
            => out.status = "QUEUE"

\* a slashed validator past its exit epoch is reported EXIT
C32_Witness ==
  /\ Read("GetValStatus")
  /\ out.valIdx = 1
  /\ Len(args.p.Validators) = 2
  /\ args.p.Validators[2].Slashed
  /\ args.p.Validators[2].ExitEpoch = 1
  /\ args.p.Epoch = 2
  /\ out.status = "EXIT"

\* C40: Balance returns an error, and does not end in an out-of-range
\* access, for every validator index that has no entry in the balances list
\* (valIdx >= len(Balances)), and returns Balances[valIdx] without an error
\* for every valIdx < len(Balances).
C40_BalanceOrError ==
  Read("Balance") =>
    /\ ~out.panic
    /\ out.valIdx >= Len(args.p.Balances) => out.err
    /\ out.valIdx < Len(args.p.Balances)
         => ~out.err /\ out.balance = args.p.Balances[out.valIdx + 1]

\* C38: for every Altair-or-later state and every flag, the attesting balance
\* of the flag is at most the total active balance, whatever the validator
\* set, validators with previous-epoch participation bits that are not
\* active at the state's epoch included.
C38_AttestingWithinActive ==
  (Built /\ args.bstate.Version # "phase0") =>
    \A f \in 1..3 : out.state.AttestingBalance[f] <= out.state.TotalActiveBalance

\* C39: after the participation is processed, MaxAttestingBalance is the sum
\* of the effective balances of the validators that attested in any manner,
\* i.e. of the validators i with AttestingVals[i] true.
C39_MaxAttestingBalance ==
  (Built /\ args.bstate.Version # "phase0") =>
    out.state.MaxAttestingBalance
      = SumOver(EffectiveBalances,
                {i \in DOMAIN out.state.AttestingVals : out.state.AttestingVals[i]})

\* a step in which a reorg event reaches the live loop
ReorgArrives == pc = "select" /\ reorgs'[1] # reorgs[1]

\* C34: a reorg event whose base slot is at or above the next slot to download
\* is not acted upon: only the reorg row is persisted, the cache with its
\* finalized anchor and the next slot are unchanged, and no drop and no
\* orphan row is issued.
C34_ReorgAheadIgnored ==
  [][(ReorgArrives /\ ev'.base >= nextSlotDownload) =>
       /\ issued' = << Row("Reorg", ev'.slot, ev'.slot - ev'.base) >>
       /\ queue' = queue
       /\ nextSlotDownload' = nextSlotDownload
       /\ blockRows' = blockRows /\ txRows' = txRows /\ wdRows' = wdRows]_vars

\* a reorg event with its base at the next slot was handled with blocks cached
C34_Witness ==
  /\ pc = "select"
  /\ ev.type = "reorg" /\ ~ev.handled
  /\ ev.base = nextSlotDownload
  /\ issued = << Row("Reorg", ev.slot, ev.slot - ev.base) >>
  /\ DOMAIN queue.BlockHistory # {}

\* a step in which a finalized checkpoint reaches the live loop, and one in
\* which its check fails to obtain the checkpoint block
FinalizedArrives == pc = "select" /\ pc' = "select" /\ ev'.type = "finalized"
CheckFails == FinalizedArrives /\ ev'.outcome = "error"
\* the failing check sets the stop flag and leaves the cache and the tables alone
FailureFrame ==
  CheckFails =>
    /\ stop'
    /\ queue' = queue
    /\ issued' = << Row("Checkpoint", ev'.slot \div SlotsPerEpoch, 0) >>
    /\ blockRows' = blockRows /\ txRows' = txRows /\ wdRows' = wdRows

\* C35 as stated: a check that fails to obtain the checkpoint block sets the
\* stop flag, leaves the cache and its finalized anchor unchanged and issues
\* no drop, and afterwards the live downloader requests no further block
\* before it returns, whatever event arrives: neither a download nor the
\* checkpoint block of a later finalized event.
C35_Original ==
  [][ /\ FailureFrame
      /\ (args.kind = "live" /\ stop) => (~DownloadStep /\ ~FinalizedArrives) ]_vars

\* C35: a check that fails to obtain the checkpoint block sets the stop flag
\* and the next slot to 0, leaves the cache and its finalized anchor unchanged
\* and issues no drop; afterwards the live loop downloads no further block
\* and returns on the next tick or head event, while a finalized event that
\* arrives before still runs its check.
C35_StopAfterFailure ==
  [][ /\ FailureFrame
      /\ CheckFails => nextSlotDownload' = 0
      /\ (args.kind = "live" /\ stop) =>
           /\ ~DownloadStep
           /\ pc = "select" => ENABLED Tick
           /\ (pc = "head" /\ pc' # pc /\ nextSlotDownload <= headSlot) => pc' = "done" ]_vars

\* after a failed check a head event arrived and the loop returned without a download
C35_Witness ==
  /\ args.kind = "live"
  /\ stop /\ pc = "done"
  /\ ev.type = "head"
  /\ nextSlotDownload = 0
  /\ downloaded = <<>>
  /\ DOMAIN queue.BlockHistory # {}

\* C36: in historical mode Run terminates for every worker count, without
\* Close being called: the downloader, the processing routine, the workers
\* and the database finish and Run returns; in finalized or hybrid mode Run
\* does not return unless the stop flag is set.
C36_RunTerminates ==
  /\ (args.kind = "pipeline" /\ args.downloadMode = "historical") ~> (life.run = "returned")
  /\ [](  (args.kind = "pipeline" /\ args.downloadMode # "historical" /\ life.run = "returned")
          => life.finishDownload)

\* ProcessETH1Data gave up for the slot: no receipts, or no parsed transactions
ETH1Failed(slot) == life.eth1[slot] \in {"receipts", "parse"}

\* C37: if fetching the execution receipts of a block fails, or parsing its
\* transactions fails, ProcessBlock persists no transaction row and no blob
\* sidecar for that block, still persists the block row, the withdrawals, the
\* BLS-to-execution changes and the deposits, and still releases the key of
\* the slot in the process book.
C37_ETH1FailureSkipsOnlyTransactions ==
  args.kind = "process" =>
    \A slot \in ProcSlots :
      (Processed(slot) /\ ETH1Failed(slot)) =>
        /\ RowsAt(out.transactions, slot) = <<>>
        /\ RowsAt(out.blobs, slot) = <<>>
        /\ RowsOfBlock(slot)
        /\ RoutineKey(slot) \notin life.processerBook

\* one block with a transaction whose receipts could not be read and one whose
\* transactions could not be parsed, both with deposits and withdrawals persisted
C37_Witness ==
  /\ args.kind = "process"
  /\ \E s1 \in ProcSlots : \E s2 \in ProcSlots :
       /\ Processed(s1) /\ life.eth1[s1] = "receipts"
       /\ Processed(s2) /\ life.eth1[s2] = "parse"
       /\ \A s \in {s1, s2} :
            /\ Len(life.BlockHistory[s].block.ExecutionPayload.Transactions) = 1
            /\ Len(RowsAt(out.deposits, s)) = 2
            /\ Len(RowsAt(out.withdrawals, s)) = 1
            /\ Len(RowsAt(out.blsChanges, s)) = 1
            /\ RowsAt(out.transactions, s) = <<>>
       /\ life.processerBook = {}

\* C33: the key of a slot is in the process book from the start of
\* ProcessBlock until every persistable of the block (block row, withdrawals,
\* transactions) has been handed to the database client: the key is not freed
\* while a persist of the slot is pending, and a finished ProcessBlock has
\* freed the key it acquired.
C33_KeyHeldUntilPersisted ==
  args.kind = "book" =>
    \A slot \in ProcSlots :
      /\ life.pc[slot] = "waiting" => RoutineKey(slot) \in life.processerBook
      /\ life.routines[slot] > 0 => RoutineKey(slot) \in life.processerBook
      /\ life.pc[slot] = "done" => RoutineKey(slot) \notin life.processerBook

====
